---- MODULE Spec2Model ----
(***************************************************************************)
(* AutoBot Ox: the orchestration core (core/interpreter_wrapper.py).       *)
(*                                                                         *)
(* WrapperInterpreter runs one interpreter.chat() stream per accepted      *)
(* message on a thread of its own and talks to the GUI thread through a    *)
(* queue and four plain attributes (_in_esecuzione, _stop_richiesto,       *)
(* _in_attesa_approvazione, _approvazione_risposta).  The GUI thread's     *)
(* methods are one action each; _elabora_messaggio, which runs on the      *)
(* worker thread, is cut at the places where it reads or writes state the  *)
(* GUI thread shares with it, so that every interleaving the interpreter   *)
(* lock allows between two statements is a behaviour of the model.         *)
(*                                                                         *)
(* The runtime (the open-interpreter library) is not part of the           *)
(* repository: it is the environment. ChatYield and Elabora_next model the *)
(* generator returned by chat(stream=True) after the chunk protocol        *)
(* written down in _elabora_messaggio's docstring.                         *)
(***************************************************************************)
EXTENDS Integers, Sequences, FiniteSets, TLC

\* ---------------------------------------------------------------- bounds
MaxTurns  == 2    \* threads ever started (accepted invia_messaggio calls)
MaxChunks == 4    \* chunks the runtime yields in one run, all streams together
MaxCode   == 2    \* characters of code in one code block
MaxQueue  == 1    \* events waiting in the queue: leggi_messaggi runs every
                  \* 100ms, so a put finds fewer than MaxQueue events there

MaxChunksGate == 4  \* chunks the runtime yields after the first Turn stopped at its gate
MaxChunksScenario == 7  \* chunks of the runs whose events are recorded
MaxQueueScenario  == 2  \* events waiting in the queue in those runs
MaxAzioni == 2    \* calls of the automation facade that reach the operating system
MaxImmagini == 2  \* screenshots captured (imposta_screenshot_pendente calls that succeed)
MaxSalute == 2    \* HealthCheckThread threads ever started (avvia calls that start one)

Turni == 1..MaxTurns
Sonde == 1..MaxSalute

\* ------------------------------------------------------ input alphabets
UserMsgs  == {"u1"}                            \* texts the user submits
Frags     == {<<>>, <<" ">>, <<"a">>}       \* contents of a "code" chunk
Testi     == {<<>>, <<"t">>}                   \* contents of a "message" chunk
Outputs   == {<<>>, <<"o">>}                   \* contents of an "output" chunk
Linguaggi == {"shell"}                         \* contents of a "language" chunk
Replies   == {"r1"}                            \* assistant messages the runtime records
Providers == {"locale", "cloud"}               \* ProviderManager's providers
Chiavi    == Providers \cup {"altro"}          \* keys passed to seleziona_provider
Basi      == {"", "url"}                       \* values of api_base
Modelli   == {"", "m"}                         \* values of modello
ChiaviApi == {"", "not-needed", "sk"}          \* values of api_key
\* the processes that import core.computer_use: the application and the
\* subprocess in which the runtime runs Python code
Processi  == {"app", "sub"}
\* Optional[str] None for a screenshot; the images are numbered from 1
Nessuna   == 0
\* GestoreProvider.__init__: self._providers = {}
NessunProvider == [k \in {} |-> ""]
\* the empty dictionary ottieni_config_interpreter returns without a provider
NessunaConfig == [f \in {} |-> ""]
\* what a call of GestoreProvider returned: the method, its boolean, its
\* message and its dictionary (those the method does not return are empty)
Ritorno(op, ok, msg, config) == [op |-> op, ok |-> ok, msg |-> msg, config |-> config]

VARIABLES
  \* WrapperInterpreter attributes
  interpreter,             \* self._interpreter: "None" or "set"
  interp_messages,         \* self._interpreter.messages
  coda_messaggi,           \* self._coda_messaggi
  in_esecuzione,           \* self._in_esecuzione
  stop_richiesto,          \* self._stop_richiesto
  in_attesa_approvazione,  \* self._in_attesa_approvazione
  approvazione_risposta,   \* self._approvazione_risposta: "None","True","False"
  cronologia,              \* self._cronologia
  auto_run,                \* self._auto_run
  \* GUI thread
  main_pc,                 \* "idle", or "sleep" inside riconfigura's time.sleep(1)
  n_thread,                \* number of InterpreterThread threads started so far
  \* worker threads (one per accepted message), locals of _elabora_messaggio
  pc,                      \* position of each thread
  messaggio_arg,           \* the argument of _elabora_messaggio
  chunk,                   \* the chunk the for loop is holding
  linguaggio_corrente,
  codice_accumulato,
  in_blocco_codice,
  in_blocco_messaggio,
  \* the runtime's generator of each chat() call
  rt,                      \* phase of the stream
  rt_code,                 \* code of the block the runtime is streaming / about to run
  rt_lang,                 \* language of that block
  budget,                  \* chunks the runtime may still yield
  \* history variables (observations only, never read by the program)
  nfinal,                  \* final Status events each worker has put in the queue
  mode,                    \* how the worker passed the last intent: "none","auto","gated"
  okAfter,                 \* approve(True) was recorded after the ApprovalRequest was put
  firstDec,                \* first decision recorded while the worker waits at the gate
  stopAtGate,              \* emergency_stop was called while the worker waits at the
                           \* gate and no decision was recorded
  stopSince,               \* emergency_stop was called while this Turn's worker was alive
  dopoReset,               \* nuova_conversazione was called and no Turn was started since
  config_avvio,            \* the configuration the runtime held when the Turn started
  \* the observer of the queue: what was put and what was delivered
  registra,                \* the observer records (constant in a behaviour)
  capienza,                \* events the polling lets wait in the queue (constant)
  prodotti,                \* events put in the queue, in the order of the puts (without
                           \* those nuova_conversazione discarded)
  consegnati,              \* events leggi_messaggi returned, call after call
  flusso,                  \* the chunks each worker received, in order
  \* configuration (gui/app.py, ProviderManager and the runtime module)
  provider_attivo,         \* the provider selected in the GUI
  config_rt,               \* provider whose model, api_base and api_key the runtime holds
  \* ControlloSalute (core/health_check.py)
  s_online,                \* self._online
  s_in_esecuzione,         \* self._in_esecuzione
  s_stop_event,            \* self._stop_event is set
  s_n,                     \* HealthCheckThread threads started so far
  s_pc,                    \* position of each HealthCheckThread
  s_nuovo,                 \* its local nuovo_stato
  s_chiamante,             \* the caller of ferma: "idle", or "join" inside thread.join
  s_ultimo,                \* value of the last callback invocation ("nessuno" before the first)
  \* GestoreProvider (core/provider_manager.py)
  providers,               \* self._providers: key -> ConfigProvider
  g_ritorno,               \* the last call of GestoreProvider that returns a value, and the value
  \* core/vision.py
  screenshot_pendente,     \* _screenshot_pendente
  v_pc,                    \* position of each caller of preleva_screenshot_pendente
  v_screenshot,            \* its local "screenshot"
  v_n,                     \* screenshots captured so far
  v_atteso,                \* the last image set, if no call has read it yet (observation)
  v_resi,                  \* the images the calls of preleva returned, in order (observation)
  \* core/computer_use.py
  computer_use_abilitato,  \* _computer_use_abilitato, in each process that imported the module
  cu_ritorno,              \* the last call of the facade and what it returned
  cu_azioni,               \* calls that reached the operating system so far
  l_pc,                    \* position of the GUI thread inside leggi_messaggi, when the
                           \* call is followed statement by statement
  l_messaggi,              \* its local "messaggi"
  cu_scattato,             \* in each process: the failsafe fired and nobody enabled the
                           \* facade since (observation)
  decisione_letta,         \* the value now in _approvazione_risposta has ended the wait
                           \* of a gate (observation)
  \* core/vision.py
  vision_abilitata,        \* _vision_abilitata
  v_turno                  \* the Turn whose invia_messaggio stored the image now pending,
                           \* 0 when the slot is empty (observation)

coreVars   == <<interpreter, interp_messages, coda_messaggi, in_esecuzione,
                stop_richiesto, in_attesa_approvazione, approvazione_risposta,
                cronologia, auto_run>>
mainVars   == <<main_pc, n_thread>>
localVars  == <<messaggio_arg, chunk, linguaggio_corrente, codice_accumulato,
                in_blocco_codice, in_blocco_messaggio>>
rtVars     == <<rt, rt_code, rt_lang, budget>>
ghostVars  == <<nfinal, mode, okAfter, firstDec, stopAtGate, stopSince>>
logVars    == <<prodotti, consegnati, flusso>>
cfgVars    == <<provider_attivo, config_rt, config_avvio>>
saluteVars == <<s_online, s_in_esecuzione, s_stop_event, s_n, s_pc, s_nuovo,
                s_chiamante, s_ultimo>>
gestoreVars == <<providers, g_ritorno>>
visionVars == <<screenshot_pendente, v_pc, v_screenshot, v_n, v_atteso, v_resi>>
cuVars     == <<computer_use_abilitato, cu_ritorno, cu_azioni, cu_scattato>>
letturaVars == <<l_pc, l_messaggi>>
gateVars   == <<decisione_letta>>
iniezioneVars == <<vision_abilitata, v_turno>>
vars == <<coreVars, mainVars, pc, localVars, rtVars, ghostVars, dopoReset,
          registra, capienza, logVars, cfgVars, saluteVars, gestoreVars,
          visionVars, cuVars,
              letturaVars, gateVars, iniezioneVars>>

\* ------------------------------------------------------------ data model
\* MessaggioInterpreter (token counts are never set by the wrapper: always 0)
Messaggio(tipo, contenuto, ruolo, linguaggio, completo) ==
  [tipo |-> tipo, contenuto |-> contenuto, ruolo |-> ruolo,
   linguaggio |-> linguaggio, completo |-> completo]

MsgErrore(testo)      == Messaggio("error", <<testo>>, "assistant", "", FALSE)
MsgStato(testo)       == Messaggio("status", <<testo>>, "assistant", "", FALSE)
MsgStatoFinale        == Messaggio("status", <<"Elaborazione completata">>, "assistant", "", TRUE)
MsgTesto(t)           == Messaggio("message", t, "assistant", "", FALSE)
MsgCodice(c, l)       == Messaggio("code", c, "assistant", l, FALSE)
MsgOutput(o)          == Messaggio("console", o, "computer", "", FALSE)
MsgApprovazione(c, l) == Messaggio("approval", c, "assistant", l, FALSE)

\* a chunk of the stream: a dict with one key
Chunk(k, v)  == [key |-> k, val |-> v, lang |-> ""]
ChunkExec(c, l) == [key |-> "executing", val |-> c, lang |-> l]
NoChunk      == Chunk("none", <<>>)

\* str.strip() of a string of the alphabet {" ", "a"}: drop the blanks at both ends
RECURSIVE LStrip(_)
LStrip(s) == IF s # <<>> /\ Head(s) = " " THEN LStrip(Tail(s)) ELSE s
RECURSIVE RStrip(_)
RStrip(s) == IF s # <<>> /\ s[Len(s)] = " " THEN RStrip(SubSeq(s, 1, Len(s) - 1)) ELSE s
Strip(s) == RStrip(LStrip(s))

Alive(w) == pc[w] \notin {"idle", "dead"}

\* Put for a LIFO queue: the last event put is the first one out
Put_pila(q, m) == <<m>> \o q

Put(q, m) == Append(q, m)

\* room in the queue for n more events (the queue itself is unbounded: this
\* only keeps the runs in which the GUI's poll keeps up with the producers)
Spazio(n) == Len(coda_messaggi) + n <= capienza

\* "msg not in self._cronologia"
InSeq(x, s) == \E i \in 1..Len(s) : s[i] = x

\* AppendMissing with "insert(0, msg)" written for "append(msg)"
RECURSIVE AppendMissing_inTesta(_, _)
AppendMissing_inTesta(cron, msgs) ==
  IF msgs = <<>> THEN cron
  ELSE AppendMissing_inTesta(IF InSeq(Head(msgs), cron) THEN cron
                             ELSE <<Head(msgs)>> \o cron,
                             Tail(msgs))

RECURSIVE AppendMissing(_, _)
AppendMissing(cron, msgs) ==
  IF msgs = <<>> THEN cron
  ELSE AppendMissing(IF InSeq(Head(msgs), cron) THEN cron ELSE Append(cron, Head(msgs)),
                     Tail(msgs))

\* ------------------------------------------------------------------ Init
\* The state after construction: WrapperInterpreter.__init__ and
\* ControlloSalute.__init__.  reg, coda and chunks fix the observer and the
\* size of the runs.
Inizio(reg, coda, chunks) ==
  /\ interpreter = "None"
  /\ interp_messages = <<>>
  /\ coda_messaggi = <<>>
  /\ in_esecuzione = FALSE
  /\ stop_richiesto = FALSE
  /\ in_attesa_approvazione = FALSE
  /\ approvazione_risposta = "None"
  /\ cronologia = <<>>
  /\ auto_run = FALSE
  /\ main_pc = "idle"
  /\ n_thread = 0
  /\ pc = [w \in Turni |-> "idle"]
  /\ messaggio_arg = [w \in Turni |-> ""]
  /\ chunk = [w \in Turni |-> NoChunk]
  /\ linguaggio_corrente = [w \in Turni |-> "python"]
  /\ codice_accumulato = [w \in Turni |-> <<>>]
  /\ in_blocco_codice = [w \in Turni |-> FALSE]
  /\ in_blocco_messaggio = [w \in Turni |-> FALSE]
  /\ rt = [w \in Turni |-> "unborn"]
  /\ rt_code = [w \in Turni |-> <<>>]
  /\ rt_lang = [w \in Turni |-> "python"]
  /\ budget = chunks
  /\ nfinal = [w \in Turni |-> 0]
  /\ mode = [w \in Turni |-> "none"]
  /\ okAfter = [w \in Turni |-> FALSE]
  /\ firstDec = [w \in Turni |-> "unset"]
  /\ stopAtGate = [w \in Turni |-> FALSE]
  /\ stopSince = [w \in Turni |-> FALSE]
  /\ dopoReset = FALSE
  /\ config_avvio = [w \in Turni |-> "nessuno"]
  /\ registra = reg
  /\ capienza = coda
  /\ prodotti = <<>>
  /\ consegnati = <<>>
  /\ flusso = [w \in Turni |-> <<>>]
  /\ provider_attivo = "locale"
  /\ config_rt = "nessuno"
  /\ s_online = FALSE
  /\ s_in_esecuzione = FALSE
  /\ s_stop_event = FALSE
  /\ s_n = 0
  /\ s_pc = [t \in Sonde |-> "idle"]
  /\ s_nuovo = [t \in Sonde |-> FALSE]
  /\ s_chiamante = "idle"
  /\ s_ultimo = "nessuno"
  /\ providers = NessunProvider
  /\ g_ritorno = Ritorno("nessuna", FALSE, "", NessunaConfig)
  /\ screenshot_pendente = Nessuna
  /\ v_pc = [w \in Turni |-> "idle"]
  /\ v_screenshot = [w \in Turni |-> Nessuna]
  /\ v_n = 0
  /\ v_atteso = Nessuna
  /\ v_resi = <<>>
  /\ computer_use_abilitato = [p \in Processi |-> FALSE]
  /\ cu_ritorno = [op |-> "nessuna", ok |-> FALSE]
  /\ cu_azioni = 0
  /\ cu_scattato = [p \in Processi |-> FALSE]
  /\ decisione_letta = FALSE
  /\ vision_abilitata = FALSE
  /\ v_turno = 0
  /\ l_pc = "idle"
  /\ l_messaggi = <<>>

Init == Inizio(FALSE, MaxQueue, MaxChunks)


\* ------------------------------------------------- GUI thread: the methods
\* The GUI thread calls the wrapper's methods one at a time (Tk's event
\* loop); while it sleeps in riconfigura it calls nothing else.
GuiIdle == main_pc = "idle"

\* the observer's record of a step that puts the events evs in the queue
Registra(evs) == prodotti' = IF registra THEN prodotti \o evs ELSE prodotti

\* what no method of WrapperInterpreter touches
FuoriDalGate ==
  UNCHANGED <<registra, capienza, provider_attivo, saluteVars, gestoreVars,
              visionVars, cuVars,
              letturaVars, iniezioneVars>>
FuoriDalCore == FuoriDalGate /\ UNCHANGED gateVars
\* the same for the steps that reach core/vision.py
FuoriDaInvio ==
  UNCHANGED <<registra, capienza, provider_attivo, saluteVars, gestoreVars,
              cuVars, letturaVars, gateVars,
              v_pc, v_screenshot, v_atteso, v_resi, vision_abilitata>>
CodaLibera == Spazio(1)

\* inizializza_interpreter(config).  esito is what the body does:
\*   "ok"            runs to "return True"
\*   "import_error"  "import interpreter" raises, before self._interpreter is bound
\*   "errore"        a later statement raises, after self._interpreter is bound
\* config is the provider whose model, api_base and api_key the call writes
\* into the runtime module.
InizializzaCon(esito, config) ==
  /\ interpreter' = IF esito = "import_error" THEN interpreter ELSE "set"
  /\ coda_messaggi' =
       CASE esito = "ok" -> coda_messaggi
         [] esito = "import_error" ->
              Put(coda_messaggi, MsgErrore("Libreria 'open-interpreter' non installata!"))
         [] OTHER -> Put(coda_messaggi, MsgErrore("Errore inizializzazione"))
  /\ config_rt' = IF esito = "import_error" THEN config_rt ELSE config
  /\ Registra(CASE esito = "ok" -> <<>>
                 [] esito = "import_error" ->
                      <<MsgErrore("Libreria 'open-interpreter' non installata!")>>
                 [] OTHER -> <<MsgErrore("Errore inizializzazione")>>)

\* gui/app.py passes the configuration of the provider selected in the GUI
Inizializza(esito) == InizializzaCon(esito, provider_attivo)

inizializza_interpreter(esito) ==
  /\ GuiIdle
  /\ esito # "ok" => CodaLibera
  /\ Inizializza(esito)
  /\ UNCHANGED <<interp_messages, in_esecuzione, stop_richiesto, in_attesa_approvazione,
                 approvazione_risposta, cronologia, auto_run>>
  /\ UNCHANGED <<mainVars, pc, localVars, rtVars, ghostVars>>
  /\ UNCHANGED <<consegnati, flusso, dopoReset, config_avvio>>
  /\ FuoriDalCore

\* What emergency_stop writes (shared with riconfigura, which calls it).
\* "self._interpreter.messages = self._interpreter.messages" changes nothing.
StopFlags ==
  /\ stop_richiesto' = TRUE
  /\ in_esecuzione' = FALSE
  /\ in_attesa_approvazione' = FALSE
  /\ stopSince' = [w \in Turni |-> stopSince[w] \/ Alive(w)]
  /\ stopAtGate' = [w \in Turni |->
        stopAtGate[w] \/ (pc[w] = "attesa" /\ approvazione_risposta = "None")]

emergency_stop ==
  /\ GuiIdle
  /\ CodaLibera
  /\ StopFlags
  /\ coda_messaggi' = Put(coda_messaggi, MsgStato("STOP DI EMERGENZA"))
  /\ UNCHANGED <<interpreter, interp_messages, approvazione_risposta, cronologia, auto_run>>
  /\ UNCHANGED <<mainVars, pc, localVars, rtVars>>
  /\ UNCHANGED <<nfinal, mode, okAfter, firstDec>>
  /\ Registra(<<MsgStato("STOP DI EMERGENZA")>>)
  /\ UNCHANGED <<consegnati, flusso, dopoReset, config_rt, config_avvio>>
  /\ FuoriDalCore

\* approva_esecuzione(approvato)
approva_esecuzione(approvato) ==
  /\ GuiIdle
  /\ approvazione_risposta' = IF approvato THEN "True" ELSE "False"
  /\ in_attesa_approvazione' = FALSE
  /\ okAfter' = [w \in Turni |->
        okAfter[w] \/ (approvato /\ pc[w] \in {"attesa", "decisione"})]
  /\ firstDec' = [w \in Turni |->
        IF pc[w] = "attesa" /\ firstDec[w] = "unset"
        THEN (IF approvato THEN "yes" ELSE "no") ELSE firstDec[w]]
  /\ UNCHANGED <<interpreter, interp_messages, coda_messaggi, in_esecuzione,
                 stop_richiesto, cronologia, auto_run>>
  /\ UNCHANGED <<mainVars, pc, localVars, rtVars>>
  /\ UNCHANGED <<nfinal, mode, stopAtGate, stopSince>>
  /\ decisione_letta' = FALSE
  /\ Registra(<<>>)
  /\ UNCHANGED <<consegnati, flusso, dopoReset, config_rt, config_avvio>>
  /\ FuoriDalGate

\* leggi_messaggi(): takes everything out of the queue
leggi_messaggi ==
  /\ GuiIdle
  /\ coda_messaggi # <<>>
  /\ coda_messaggi' = <<>>
  /\ UNCHANGED <<interpreter, interp_messages, in_esecuzione, stop_richiesto,
                 in_attesa_approvazione, approvazione_risposta, cronologia, auto_run>>
  /\ UNCHANGED <<mainVars, pc, localVars, rtVars, ghostVars>>
  /\ consegnati' = IF registra THEN consegnati \o coda_messaggi ELSE consegnati
  /\ UNCHANGED <<prodotti, flusso, dopoReset, config_rt, config_avvio>>
  /\ FuoriDalCore

\* leggi_messaggi followed statement by statement, while the Turns' threads
\* put events.  What the steps leave alone:
FuoriDaLeggi ==
  /\ UNCHANGED <<interpreter, interp_messages, in_esecuzione, stop_richiesto,
                 in_attesa_approvazione, approvazione_risposta, cronologia, auto_run>>
  /\ UNCHANGED <<mainVars, pc, localVars, rtVars, ghostVars>>
  /\ UNCHANGED <<prodotti, flusso, dopoReset, config_rt, config_avvio>>
  /\ UNCHANGED <<registra, capienza, provider_attivo, saluteVars, gestoreVars,
                 visionVars, cuVars, gateVars, iniezioneVars>>

\* the call: "messaggi = []"
Leggi_inizio ==
  /\ GuiIdle /\ l_pc = "idle"
  /\ l_messaggi' = <<>>
  /\ l_pc' = "while"
  /\ UNCHANGED <<coda_messaggi, consegnati>>
  /\ FuoriDaLeggi

\* "while not self._coda_messaggi.empty()", and "return messaggi" when the
\* queue is empty
Leggi_while ==
  /\ l_pc = "while"
  /\ IF coda_messaggi # <<>>
     THEN /\ l_pc' = "get"
          /\ UNCHANGED <<l_messaggi, consegnati>>
     ELSE /\ l_pc' = "idle"
          /\ consegnati' = IF registra THEN consegnati \o l_messaggi ELSE consegnati
          /\ l_messaggi' = <<>>
  /\ UNCHANGED coda_messaggi
  /\ FuoriDaLeggi

\* DopoGet with a get that empties the queue
DopoGet_vuota(coda) == <<>>

\* the queue after get_nowait took its first event
DopoGet(coda) == Tail(coda)

\* "msg = self._coda_messaggi.get_nowait(); messaggi.append(msg)", and
\* "except queue.Empty: break"
Leggi_get ==
  /\ l_pc = "get"
  /\ IF coda_messaggi # <<>>
     THEN /\ l_messaggi' = Append(l_messaggi, Head(coda_messaggi))
          /\ coda_messaggi' = DopoGet(coda_messaggi)
          /\ l_pc' = "while"
          /\ UNCHANGED consegnati
     ELSE /\ l_pc' = "idle"
          /\ consegnati' = IF registra THEN consegnati \o l_messaggi ELSE consegnati
          /\ l_messaggi' = <<>>
          /\ UNCHANGED coda_messaggi
  /\ FuoriDaLeggi

\* one step of a call of leggi_messaggi
Leggi_passo == Leggi_inizio \/ Leggi_while \/ Leggi_get

\* imposta_auto_run(valore)
imposta_auto_run(valore) ==
  /\ GuiIdle
  /\ auto_run' = valore
  /\ UNCHANGED <<interpreter, interp_messages, coda_messaggi, in_esecuzione, stop_richiesto,
                 in_attesa_approvazione, approvazione_risposta, cronologia>>
  /\ UNCHANGED <<mainVars, pc, localVars, rtVars, ghostVars>>
  /\ Registra(<<>>)
  /\ UNCHANGED <<consegnati, flusso, dopoReset, config_rt, config_avvio>>
  /\ FuoriDalCore

\* nuova_conversazione()
nuova_conversazione ==
  /\ GuiIdle
  /\ interp_messages' = IF interpreter # "None" THEN <<>> ELSE interp_messages
  /\ cronologia' = <<>>
  /\ coda_messaggi' = <<>>
  /\ UNCHANGED <<interpreter, in_esecuzione, stop_richiesto, in_attesa_approvazione,
                 approvazione_risposta, auto_run>>
  /\ UNCHANGED <<mainVars, pc, localVars, rtVars, ghostVars>>
  /\ dopoReset' = TRUE
  \* the observer strikes out the events the call discards
  /\ prodotti' = IF registra
                  THEN SubSeq(prodotti, 1, Len(prodotti) - Len(coda_messaggi))
                  ELSE prodotti
  /\ UNCHANGED <<consegnati, flusso, config_rt, config_avvio>>
  /\ FuoriDalCore

\* riconfigura(config), first half: a Turn is running, so emergency_stop()
\* and then time.sleep(1), during which the worker threads go on running.
riconfigura_stop ==
  /\ GuiIdle
  /\ in_esecuzione
  /\ CodaLibera
  /\ StopFlags
  /\ coda_messaggi' = Put(coda_messaggi, MsgStato("STOP DI EMERGENZA"))
  /\ main_pc' = "sleep"
  /\ UNCHANGED <<interpreter, interp_messages, approvazione_risposta, cronologia, auto_run>>
  /\ UNCHANGED <<n_thread, pc, localVars, rtVars>>
  /\ UNCHANGED <<nfinal, mode, okAfter, firstDec>>
  /\ Registra(<<MsgStato("STOP DI EMERGENZA")>>)
  /\ UNCHANGED <<consegnati, flusso, dopoReset, config_rt, config_avvio>>
  /\ FuoriDalCore

\* riconfigura(config), the rest: clear the conversation and initialise again
\* (at once when no Turn was running, after the sleep otherwise).
riconfigura(esito) ==
  /\ \/ main_pc = "sleep"
     \/ GuiIdle /\ ~in_esecuzione
  /\ esito # "ok" => CodaLibera
  /\ main_pc' = "idle"
  /\ interp_messages' = IF interpreter # "None" THEN <<>> ELSE interp_messages
  /\ cronologia' = <<>>
  /\ Inizializza(esito)
  /\ UNCHANGED <<in_esecuzione, stop_richiesto, in_attesa_approvazione,
                 approvazione_risposta, auto_run>>
  /\ UNCHANGED <<n_thread, pc, localVars, rtVars, ghostVars>>
  /\ UNCHANGED <<consegnati, flusso, dopoReset, config_avvio>>
  /\ FuoriDalCore

\* gui/app.py, _on_cambio_provider(provider): select the provider and call
\* _inizializza_interprete, which returns at once when the provider's
\* configuration is not valid ("non_valida") and calls
\* inizializza_interpreter with it otherwise.  The imposta_auto_run that
\* follows a success passes the value the wrapper already holds.
cambio_provider(provider, esito) ==
  /\ GuiIdle
  /\ esito \in {"import_error", "errore"} => CodaLibera
  /\ provider_attivo' = provider
  /\ IF esito = "non_valida"
     THEN UNCHANGED <<interpreter, coda_messaggi, config_rt, prodotti>>
     ELSE InizializzaCon(esito, provider)
  /\ UNCHANGED <<interp_messages, in_esecuzione, stop_richiesto, in_attesa_approvazione,
                 approvazione_risposta, cronologia, auto_run>>
  /\ UNCHANGED <<mainVars, pc, localVars, rtVars, ghostVars>>
  /\ UNCHANGED <<consegnati, flusso, dopoReset, config_avvio>>
  /\ UNCHANGED <<registra, capienza, saluteVars, gestoreVars, visionVars, cuVars,
              letturaVars, gateVars, iniezioneVars>>

\* invia_messaggio(messaggio).  The two early returns (RifiutaInvio: the
\* call returns False), then the accepted call (AccettaInvio: it returns True): history, flags, the "Elaborazione in corso..." status and
\* Thread(target=self._elabora_messaggio).start().  The new thread begins at
\* the top of _elabora_messaggio with its locals initialised.
RifiutaInvio_reset(testo) ==
  \* RifiutaInvio with the "Reset flag" lines moved above the early returns
  /\ coda_messaggi' = Put(coda_messaggi, MsgErrore(testo))
  /\ stop_richiesto' = FALSE
  /\ UNCHANGED <<interpreter, interp_messages, in_esecuzione,
                 in_attesa_approvazione, approvazione_risposta, cronologia, auto_run>>
  /\ UNCHANGED <<main_pc, n_thread, pc, localVars, rtVars, ghostVars>>
  /\ Registra(<<MsgErrore(testo)>>)
  /\ UNCHANGED <<consegnati, flusso, dopoReset, config_rt, config_avvio>>
  /\ FuoriDalCore

RifiutaInvio(testo) ==
  /\ coda_messaggi' = Put(coda_messaggi, MsgErrore(testo))
  /\ UNCHANGED <<interpreter, interp_messages, in_esecuzione, stop_richiesto,
                 in_attesa_approvazione, approvazione_risposta, cronologia, auto_run>>
  /\ UNCHANGED <<main_pc, n_thread, pc, localVars, rtVars, ghostVars>>
  /\ Registra(<<MsgErrore(testo)>>)
  /\ UNCHANGED <<consegnati, flusso, dopoReset, config_rt, config_avvio>>
  /\ FuoriDalCore

\* the flag left as emergency_stop set it
StopDopoInvio_lascia(stop) == stop

\* "Reset flag": "self._stop_richiesto = False"
StopDopoInvio(stop) == FALSE

AccettaInvio(messaggio) ==
  LET w == n_thread + 1 IN
  /\ n_thread < MaxTurns
  /\ cronologia' = Append(cronologia, [role |-> "user", message |-> messaggio])
  /\ stop_richiesto' = StopDopoInvio(stop_richiesto)
  /\ in_esecuzione' = TRUE
  /\ coda_messaggi' = Put(coda_messaggi, MsgStato("Elaborazione in corso..."))
  /\ n_thread' = w
  /\ pc' = [pc EXCEPT ![w] = "next"]
  /\ rt' = [rt EXCEPT ![w] = "start"]
  /\ messaggio_arg' = [messaggio_arg EXCEPT ![w] = messaggio]
  /\ UNCHANGED <<interpreter, interp_messages, in_attesa_approvazione,
                 approvazione_risposta, auto_run>>
  /\ UNCHANGED <<main_pc, chunk, linguaggio_corrente, codice_accumulato,
                 in_blocco_codice, in_blocco_messaggio>>
  /\ UNCHANGED <<rt_code, rt_lang, budget, ghostVars>>
  /\ Registra(<<MsgStato("Elaborazione in corso...")>>)
  /\ dopoReset' = FALSE
  /\ config_avvio' = [config_avvio EXCEPT ![w] = config_rt]
  /\ UNCHANGED <<consegnati, flusso, config_rt>>
  /\ IF vision_abilitata
     THEN \* "vision.imposta_screenshot_pendente()": a new image, or None
          \* when the capture fails
          \E esito \in {"ok", "errore"} :
            /\ esito = "ok" => v_n < MaxImmagini
            /\ screenshot_pendente' = IF esito = "ok" THEN v_n + 1 ELSE Nessuna
            /\ v_n' = IF esito = "ok" THEN v_n + 1 ELSE v_n
            /\ v_turno' = IF esito = "ok" THEN w ELSE 0
     ELSE UNCHANGED <<screenshot_pendente, v_n, v_turno>>
  /\ FuoriDaInvio

invia_messaggio(messaggio) ==
  /\ GuiIdle
  /\ CodaLibera
  /\ IF interpreter = "None"
     THEN RifiutaInvio("Interprete non inizializzato!")
     ELSE IF in_esecuzione
          THEN RifiutaInvio("L'interprete sta gia' elaborando un messaggio.")
          ELSE AccettaInvio(messaggio)


\* gui/app.py, _on_invia_messaggio: the input field is disabled from an
\* accepted submit until the Turn's final Status is shown, so the GUI's user
\* submits when the Core is configured and no Turn is running.
invio_gui(messaggio) ==
  /\ interpreter # "None"
  /\ ~in_esecuzione
  /\ invia_messaggio(messaggio)

\* gui/app.py, _mostra_approvazione_codice with _on_approva_codice and
\* _on_rifiuta_codice: the dialog opens when the poll delivers the
\* ApprovalRequest, and the user answers it once.
decisione_gui(approvato) ==
  /\ in_attesa_approvazione
  /\ consegnati # <<>>
  /\ consegnati[Len(consegnati)].tipo = "approval"
  /\ approva_esecuzione(approvato)

\* ------------------------------------------- the runtime: chat(stream=True)
\* The generator of one chat() call.  Phases: "start" (not yet resumed),
\* "top" (waiting for the model), "msg" (inside a message), "aftermsg",
\* "code" (inside a code block), "endcode" (block closed, code to run),
\* "intent" (suspended at the yield of {"executing": ...}: the code runs when
\* the generator is resumed and does not run when it is closed), "done".
\* ChatYield(w): the pairs <<chunk, next phase>> the generator may yield
\* when it is resumed in its current phase.
ChatYield(w) ==
  CASE rt[w] \in {"start", "top"} ->
         {<<Chunk("start_of_message", <<>>), "msg">>,
          <<Chunk("start_of_code", <<>>), "code">>}
    [] rt[w] = "msg" ->
         {<<Chunk("message", t), "msg">> : t \in Testi}
           \cup {<<Chunk("end_of_message", <<>>), "aftermsg">>}
    [] rt[w] = "aftermsg" ->
         {<<Chunk("start_of_code", <<>>), "code">>}
    [] rt[w] = "code" ->
         (IF rt_code[w] = <<>> /\ rt_lang[w] = "python"
          THEN {<<[key |-> "language", val |-> <<>>, lang |-> l], "code">> : l \in Linguaggi}
          ELSE {})
           \cup (IF Len(rt_code[w]) < MaxCode
                 THEN {<<Chunk("code", f), "code">> : f \in Frags}
                 ELSE {})
           \cup {<<Chunk("end_of_code", <<>>),
                   IF rt_code[w] # <<>> THEN "endcode" ELSE "top">>}
    [] rt[w] = "endcode" ->
         {<<ChunkExec(rt_code[w], rt_lang[w]), "intent">>}
    [] rt[w] = "intent" ->
         {<<Chunk("output", o), "top">> : o \in Outputs}
    [] OTHER -> {}

\* what resuming the generator does to the runtime's own state
RtCodeDopo(w, c) ==
  CASE c.key = "code" -> rt_code[w] \o c.val
    [] c.key \in {"language", "end_of_code", "executing"} -> rt_code[w]
    [] OTHER -> <<>>

RtLangDopo(w, c) ==
  CASE c.key = "language" -> c.lang
    [] c.key \in {"code", "end_of_code", "executing"} -> rt_lang[w]
    [] OTHER -> "python"

\* interpreter.messages after the resumption: chat() records the user's
\* message when it starts and one assistant message per model response
MessagesDopo(w, c, r) ==
  LET m1 == IF rt[w] = "start"
            THEN Append(interp_messages, [role |-> "user", message |-> messaggio_arg[w]])
            ELSE interp_messages
  IN IF rt[w] \in {"start", "top"} /\ c.key \in {"start_of_message", "start_of_code"}
     THEN Append(m1, [role |-> "assistant", message |-> r])
     ELSE m1

\* a request that leaves the image pending
RichiestaAlModello_mai(w) == FALSE

\* the resumption calls litellm.completion, that is patched_completion, which
\* starts with preleva_screenshot_pendente(): chat() calls the model when it
\* starts and after each block of code it ran
RichiestaAlModello(w) == rt[w] \in {"start", "top"}

\* the ghost state of the current intent is forgotten when the worker leaves it
GhostReset(w) ==
  /\ mode' = [mode EXCEPT ![w] = "none"]
  /\ okAfter' = [okAfter EXCEPT ![w] = FALSE]
  /\ firstDec' = [firstDec EXCEPT ![w] = "unset"]
  /\ stopAtGate' = [stopAtGate EXCEPT ![w] = FALSE]

\* ------------------------------------------- worker: _elabora_messaggio
\* "for chunk in self._interpreter.chat(...)": resume the generator.  It
\* yields a chunk, or ends (StopIteration), or raises.  Resumed from
\* "intent" it first runs the code it announced.
Elabora_next(w) ==
  /\ pc[w] = "next"
  /\ GhostReset(w)
  /\ \/ \E y \in ChatYield(w), r \in Replies :
        LET c == y[1]  ph == y[2] IN
          /\ budget > 0
          /\ (~(rt[w] \in {"start", "top"}) => r = "r1")
          /\ chunk' = [chunk EXCEPT ![w] = c]
          /\ rt' = [rt EXCEPT ![w] = ph]
          /\ rt_code' = [rt_code EXCEPT ![w] = RtCodeDopo(w, c)]
          /\ rt_lang' = [rt_lang EXCEPT ![w] = RtLangDopo(w, c)]
          /\ budget' = budget - 1
          /\ interp_messages' = MessagesDopo(w, c, r)
          /\ pc' = [pc EXCEPT ![w] = "chunk"]
     \/ \* the stream ends
        /\ chunk' = [chunk EXCEPT ![w] = NoChunk]
        /\ rt' = [rt EXCEPT ![w] = "done"]
        /\ interp_messages' = MessagesDopo(w, NoChunk, "r1")
        /\ pc' = [pc EXCEPT ![w] = "fine"]
        /\ rt_code' = [rt_code EXCEPT ![w] = <<>>]
        /\ rt_lang' = [rt_lang EXCEPT ![w] = "python"]
        /\ UNCHANGED budget
     \/ \* the call to the model raises (network, credentials, timeout)
        /\ rt[w] \in {"start", "top", "msg", "aftermsg", "code"}
        /\ chunk' = [chunk EXCEPT ![w] = NoChunk]
        /\ rt' = [rt EXCEPT ![w] = "done"]
        /\ interp_messages' = MessagesDopo(w, NoChunk, "r1")
        /\ pc' = [pc EXCEPT ![w] = "errore"]
        /\ rt_code' = [rt_code EXCEPT ![w] = <<>>]
        /\ rt_lang' = [rt_lang EXCEPT ![w] = "python"]
        /\ UNCHANGED budget
  /\ UNCHANGED <<interpreter, coda_messaggi, in_esecuzione, stop_richiesto,
                 in_attesa_approvazione, approvazione_risposta, cronologia, auto_run>>
  /\ UNCHANGED <<mainVars, messaggio_arg, linguaggio_corrente, codice_accumulato,
                 in_blocco_codice, in_blocco_messaggio, nfinal, stopSince>>
  /\ flusso' = IF registra /\ pc'[w] = "chunk"
                THEN [flusso EXCEPT ![w] = Append(@, chunk'[w])] ELSE flusso
  /\ Registra(<<>>)
  /\ UNCHANGED <<consegnati, dopoReset, config_rt, config_avvio>>
  /\ screenshot_pendente' = IF RichiestaAlModello(w) THEN Nessuna
                            ELSE screenshot_pendente
  /\ v_turno' = IF RichiestaAlModello(w) THEN 0 ELSE v_turno
  /\ UNCHANGED v_n
  /\ FuoriDaInvio


\* AccumulaCodice with "=" written for "+=": the last fragment only
AccumulaCodice_sovrascrive(acc, codice) == IF codice # <<>> THEN codice ELSE acc

\* "codice_accumulato += codice" under "if codice:"
AccumulaCodice(acc, codice) == IF codice # <<>> THEN acc \o codice ELSE acc

\* EventiChunk without the Code event that shows the intent
EventiChunk_senza(c, acc, ling) ==
  CASE c.key = "end_of_code" ->
         IF Strip(acc) # <<>> THEN <<MsgCodice(acc, ling)>> ELSE <<>>
    [] c.key = "message" ->
         IF c.val # <<>> THEN <<MsgTesto(c.val)>> ELSE <<>>
    [] c.key = "output" ->
         IF c.val # <<>> THEN <<MsgOutput(c.val)>> ELSE <<>>
    [] OTHER -> <<>>

\* the events the loop body puts in the queue for chunk c, up to and
\* including the Code event of an intent (the ApprovalRequest is put later)
EventiChunk(c, acc, ling) ==
  CASE c.key = "end_of_code" ->
         IF Strip(acc) # <<>> THEN <<MsgCodice(acc, ling)>> ELSE <<>>
    [] c.key = "message" ->
         IF c.val # <<>> THEN <<MsgTesto(c.val)>> ELSE <<>>
    [] c.key = "output" ->
         IF c.val # <<>> THEN <<MsgOutput(c.val)>> ELSE <<>>
    [] c.key = "executing" ->
         IF c.val # <<>> THEN <<MsgCodice(c.val, c.lang)>> ELSE <<>>
    [] OTHER -> <<>>

\* ApreGate with the test of self._auto_run left out
ApreGate_sempre(c) == c.key = "executing" /\ c.val # <<>>

\* does the loop body open an ApprovalGate for chunk c?
ApreGate(c) == c.key = "executing" /\ c.val # <<>> /\ ~auto_run

\* RispostaAllApertura with the reset left out: the slot keeps what it held
RispostaAllApertura_senza(risposta) == risposta

\* "self._approvazione_risposta = None" when the gate opens: whatever the
\* slot held is forgotten
RispostaAllApertura(risposta) == "None"

\* one pass of the loop body on the chunk just received: the STOP test, then
\* the chunk's case, up to "self._approvazione_risposta = None"
Elabora_chunk(w) ==
  LET c == chunk[w] IN
  /\ pc[w] = "chunk"
  /\ Spazio(IF stop_richiesto THEN 1
            ELSE Len(EventiChunk(c, codice_accumulato[w], linguaggio_corrente[w])))
  /\ IF stop_richiesto
     THEN \* break: the generator is closed where it is suspended
          LET ev == MsgStato("Elaborazione interrotta dall'utente") IN
          /\ coda_messaggi' = Put(coda_messaggi, ev)
          /\ pc' = [pc EXCEPT ![w] = "fine"]
          /\ rt' = [rt EXCEPT ![w] = "done"]
          /\ chunk' = [chunk EXCEPT ![w] = NoChunk]
          /\ UNCHANGED <<in_attesa_approvazione, approvazione_risposta,
                         linguaggio_corrente, codice_accumulato,
                         in_blocco_codice, in_blocco_messaggio, mode>>
     ELSE LET evs == EventiChunk(c, codice_accumulato[w], linguaggio_corrente[w]) IN
          /\ coda_messaggi' = coda_messaggi \o evs
          /\ in_blocco_messaggio' = [in_blocco_messaggio EXCEPT ![w] =
               CASE c.key = "start_of_message" -> TRUE
                 [] c.key = "end_of_message" -> FALSE
                 [] OTHER -> @]
          /\ in_blocco_codice' = [in_blocco_codice EXCEPT ![w] =
               CASE c.key = "start_of_code" -> TRUE
                 [] c.key = "end_of_code" -> FALSE
                 [] OTHER -> @]
          /\ codice_accumulato' = [codice_accumulato EXCEPT ![w] =
               CASE c.key \in {"start_of_code", "end_of_code"} -> <<>>
                 [] c.key = "code" -> AccumulaCodice(@, c.val)
                 [] OTHER -> @]
          /\ linguaggio_corrente' = [linguaggio_corrente EXCEPT ![w] =
               IF c.key = "language" THEN c.lang ELSE @]
          /\ IF ApreGate(c)
             THEN /\ in_attesa_approvazione' = TRUE
                  /\ approvazione_risposta' = RispostaAllApertura(approvazione_risposta)
                  /\ pc' = [pc EXCEPT ![w] = "richiesta"]
                  /\ UNCHANGED chunk
             ELSE /\ UNCHANGED <<in_attesa_approvazione, approvazione_risposta>>
                  /\ pc' = [pc EXCEPT ![w] = "next"]
                  /\ chunk' = [chunk EXCEPT ![w] = NoChunk]
          /\ mode' = [mode EXCEPT ![w] =
               IF c.key # "executing" THEN "none"
               ELSE IF ApreGate(c) THEN "gated"
               ELSE IF auto_run THEN "auto" ELSE "vuoto"]
          /\ UNCHANGED rt
  /\ UNCHANGED <<interpreter, interp_messages, in_esecuzione, stop_richiesto,
                 cronologia, auto_run>>
  /\ rt_code' = IF stop_richiesto THEN [rt_code EXCEPT ![w] = <<>>] ELSE rt_code
  /\ rt_lang' = IF stop_richiesto THEN [rt_lang EXCEPT ![w] = "python"] ELSE rt_lang
  /\ UNCHANGED <<mainVars, messaggio_arg, budget>>
  /\ UNCHANGED <<nfinal, okAfter, firstDec, stopAtGate, stopSince>>
  /\ decisione_letta' = IF ~stop_richiesto /\ ApreGate(c) THEN FALSE
                        ELSE decisione_letta
  /\ Registra(IF stop_richiesto
              THEN <<MsgStato("Elaborazione interrotta dall'utente")>>
              ELSE EventiChunk(c, codice_accumulato[w], linguaggio_corrente[w]))
  /\ UNCHANGED <<consegnati, flusso, dopoReset, config_rt, config_avvio>>
  /\ FuoriDalGate

\* put the ApprovalRequest in the queue
Elabora_richiesta(w) ==
  LET ev == MsgApprovazione(chunk[w].val, chunk[w].lang) IN
  /\ pc[w] = "richiesta"
  /\ Spazio(1)
  /\ coda_messaggi' = Put(coda_messaggi, ev)
  /\ pc' = [pc EXCEPT ![w] = "attesa"]
  /\ UNCHANGED <<interpreter, interp_messages, in_esecuzione, stop_richiesto,
                 in_attesa_approvazione, approvazione_risposta, cronologia, auto_run>>
  /\ UNCHANGED <<mainVars, localVars, rtVars>>
  /\ UNCHANGED <<nfinal, mode, okAfter, firstDec, stopAtGate, stopSince>>
  /\ Registra(<<ev>>)
  /\ UNCHANGED <<consegnati, flusso, dopoReset, config_rt, config_avvio>>
  /\ FuoriDalCore

\* a loop that also ends when auto-run is switched on
Attende_auto(risposta) == risposta = "None" /\ ~auto_run

\* the loop's test: "self._approvazione_risposta is None"
Attende(risposta) == risposta = "None"

\* "while self._approvazione_risposta is None": one poll that leaves the
\* loop.  A poll that finds no decision and no STOP sleeps 100ms and changes
\* nothing: the worker stays here.
Elabora_attesa(w) ==
  /\ pc[w] = "attesa"
  /\ \/ /\ ~Attende(approvazione_risposta)
        /\ decisione_letta' = TRUE
        /\ UNCHANGED in_attesa_approvazione
     \/ /\ Attende(approvazione_risposta)
        /\ stop_richiesto
        /\ in_attesa_approvazione' = FALSE
        /\ UNCHANGED decisione_letta
  /\ pc' = [pc EXCEPT ![w] = "decisione"]
  /\ UNCHANGED <<interpreter, interp_messages, coda_messaggi, in_esecuzione,
                 stop_richiesto, approvazione_risposta, cronologia, auto_run>>
  /\ UNCHANGED <<mainVars, localVars, rtVars, ghostVars>>
  /\ Registra(<<>>)
  /\ UNCHANGED <<consegnati, flusso, dopoReset, config_rt, config_avvio>>
  /\ FuoriDalGate

\* does the worker resume the stream after the wait?
Prosegue(risposta, stop) == ~(risposta # "True" \/ stop)

\* after the loop: resume the stream, or refuse and break
Elabora_decisione(w) ==
  /\ pc[w] = "decisione"
  /\ Spazio(IF Prosegue(approvazione_risposta, stop_richiesto) THEN 0 ELSE 1)
  /\ in_attesa_approvazione' = FALSE
  /\ chunk' = [chunk EXCEPT ![w] = NoChunk]
  /\ IF Prosegue(approvazione_risposta, stop_richiesto)
     THEN /\ pc' = [pc EXCEPT ![w] = "next"]
          /\ UNCHANGED <<coda_messaggi, rt, rt_code, rt_lang>>
          /\ UNCHANGED <<mode, okAfter, firstDec, stopAtGate>>
     ELSE LET ev == MsgStato("Esecuzione codice rifiutata dall'utente") IN
          /\ coda_messaggi' = Put(coda_messaggi, ev)
          /\ pc' = [pc EXCEPT ![w] = "fine"]
          /\ rt' = [rt EXCEPT ![w] = "done"]
          /\ rt_code' = [rt_code EXCEPT ![w] = <<>>]
          /\ rt_lang' = [rt_lang EXCEPT ![w] = "python"]
          /\ GhostReset(w)
  /\ UNCHANGED <<interpreter, interp_messages, in_esecuzione, stop_richiesto,
                 approvazione_risposta, cronologia, auto_run>>
  /\ UNCHANGED <<mainVars, messaggio_arg, linguaggio_corrente, codice_accumulato,
                 in_blocco_codice, in_blocco_messaggio>>
  /\ UNCHANGED <<budget, nfinal, stopSince>>
  /\ Registra(IF Prosegue(approvazione_risposta, stop_richiesto) THEN <<>>
              ELSE <<MsgStato("Esecuzione codice rifiutata dall'utente")>>)
  /\ UNCHANGED <<consegnati, flusso, dopoReset, config_rt, config_avvio>>
  /\ FuoriDalCore

\* after the loop: the runtime's messages go into the history, then the
\* final Status
Elabora_fine(w) ==
  /\ pc[w] = "fine"
  /\ Spazio(1)
  /\ cronologia' = IF interpreter # "None" /\ interp_messages # <<>>
                   THEN AppendMissing(cronologia, interp_messages)
                   ELSE cronologia
  /\ coda_messaggi' = Put(coda_messaggi, MsgStatoFinale)
  /\ nfinal' = [nfinal EXCEPT ![w] = @ + 1]
  /\ pc' = [pc EXCEPT ![w] = "finally"]
  /\ UNCHANGED <<interpreter, interp_messages, in_esecuzione, stop_richiesto,
                 in_attesa_approvazione, approvazione_risposta, auto_run>>
  /\ UNCHANGED <<mainVars, localVars, rtVars>>
  /\ UNCHANGED <<mode, okAfter, firstDec, stopAtGate, stopSince>>
  /\ Registra(<<MsgStatoFinale>>)
  /\ UNCHANGED <<consegnati, flusso, dopoReset, config_rt, config_avvio>>
  /\ FuoriDalCore

\* "except Exception as e": the Error event
Elabora_errore(w) ==
  LET ev == MsgErrore("Errore") IN
  /\ pc[w] = "errore"
  /\ Spazio(1)
  /\ coda_messaggi' = Put(coda_messaggi, ev)
  /\ pc' = [pc EXCEPT ![w] = "finally"]
  /\ UNCHANGED <<interpreter, interp_messages, in_esecuzione, stop_richiesto,
                 in_attesa_approvazione, approvazione_risposta, cronologia, auto_run>>
  /\ UNCHANGED <<mainVars, localVars, rtVars>>
  /\ UNCHANGED <<nfinal, mode, okAfter, firstDec, stopAtGate, stopSince>>
  /\ Registra(<<ev>>)
  /\ UNCHANGED <<consegnati, flusso, dopoReset, config_rt, config_avvio>>
  /\ FuoriDalCore

\* Elabora_finally with the flag cleared at the end of the try block and not
\* in a finally clause: a worker that comes from the except clause leaves it set
Elabora_finally_senza(w) ==
  /\ pc[w] = "finally"
  /\ in_esecuzione' = IF nfinal[w] = 0 THEN in_esecuzione ELSE FALSE
  /\ pc' = [pc EXCEPT ![w] = "dead"]
  /\ chunk' = [chunk EXCEPT ![w] = NoChunk]
  /\ linguaggio_corrente' = [linguaggio_corrente EXCEPT ![w] = "python"]
  /\ codice_accumulato' = [codice_accumulato EXCEPT ![w] = <<>>]
  /\ in_blocco_codice' = [in_blocco_codice EXCEPT ![w] = FALSE]
  /\ in_blocco_messaggio' = [in_blocco_messaggio EXCEPT ![w] = FALSE]
  /\ rt_code' = [rt_code EXCEPT ![w] = <<>>]
  /\ rt_lang' = [rt_lang EXCEPT ![w] = "python"]
  /\ UNCHANGED <<interpreter, interp_messages, coda_messaggi, stop_richiesto,
                 in_attesa_approvazione, approvazione_risposta, cronologia, auto_run>>
  /\ UNCHANGED <<mainVars, messaggio_arg, rt, budget, ghostVars>>
  /\ config_avvio' = [config_avvio EXCEPT ![w] = "nessuno"]
  /\ Registra(<<>>)
  /\ UNCHANGED <<consegnati, flusso, dopoReset, config_rt>>
  /\ FuoriDalCore

\* "finally: self._in_esecuzione = False", and the thread ends
Elabora_finally(w) ==
  /\ pc[w] = "finally"
  /\ in_esecuzione' = FALSE
  /\ pc' = [pc EXCEPT ![w] = "dead"]
  \* the thread's frame is gone
  /\ chunk' = [chunk EXCEPT ![w] = NoChunk]
  /\ linguaggio_corrente' = [linguaggio_corrente EXCEPT ![w] = "python"]
  /\ codice_accumulato' = [codice_accumulato EXCEPT ![w] = <<>>]
  /\ in_blocco_codice' = [in_blocco_codice EXCEPT ![w] = FALSE]
  /\ in_blocco_messaggio' = [in_blocco_messaggio EXCEPT ![w] = FALSE]
  /\ rt_code' = [rt_code EXCEPT ![w] = <<>>]
  /\ rt_lang' = [rt_lang EXCEPT ![w] = "python"]
  /\ UNCHANGED <<interpreter, interp_messages, coda_messaggi, stop_richiesto,
                 in_attesa_approvazione, approvazione_risposta, cronologia, auto_run>>
  /\ UNCHANGED <<mainVars, messaggio_arg, rt, budget, ghostVars>>
  /\ config_avvio' = [config_avvio EXCEPT ![w] = "nessuno"]
  /\ Registra(<<>>)
  /\ UNCHANGED <<consegnati, flusso, dopoReset, config_rt>>
  /\ FuoriDalCore

\* one step of worker w
_elabora_messaggio(w) ==
  \/ Elabora_next(w)
  \/ Elabora_chunk(w)
  \/ Elabora_richiesta(w)
  \/ Elabora_attesa(w)
  \/ Elabora_decisione(w)
  \/ Elabora_fine(w)
  \/ Elabora_errore(w)
  \/ Elabora_finally(w)

\* ------------------------------------ ControlloSalute (health_check.py)
\* The monitor shares nothing with WrapperInterpreter.
FuoriDaSalute ==
  UNCHANGED <<coreVars, mainVars, pc, localVars, rtVars, ghostVars, dopoReset,
              registra, capienza, logVars, cfgVars, gestoreVars, visionVars, cuVars,
              letturaVars, gateVars, iniezioneVars>>

Stato(b) == IF b THEN "True" ELSE "False"

\* avvia(): starts a HealthCheckThread unless one was started and not stopped
avvia ==
  /\ s_chiamante = "idle"
  /\ ~s_in_esecuzione
  /\ s_n < MaxSalute
  /\ s_stop_event' = FALSE
  /\ s_in_esecuzione' = TRUE
  /\ s_n' = s_n + 1
  /\ s_pc' = [s_pc EXCEPT ![s_n + 1] = "while"]
  /\ UNCHANGED <<s_online, s_nuovo, s_chiamante, s_ultimo>>
  /\ FuoriDaSalute

\* ferma(): sets the event, clears the flag and joins self._thread
ferma ==
  /\ s_chiamante = "idle"
  /\ s_in_esecuzione
  /\ s_stop_event' = TRUE
  /\ s_in_esecuzione' = FALSE
  /\ s_chiamante' = IF s_pc[s_n] # "dead" THEN "join" ELSE "idle"
  /\ UNCHANGED <<s_online, s_n, s_pc, s_nuovo, s_ultimo>>
  /\ FuoriDaSalute

\* self._thread.join(timeout=10) returns because the thread has ended
ferma_join ==
  /\ s_chiamante = "join"
  /\ s_pc[s_n] = "dead"
  /\ s_chiamante' = "idle"
  /\ UNCHANGED <<s_online, s_in_esecuzione, s_stop_event, s_n, s_pc, s_nuovo, s_ultimo>>
  /\ FuoriDaSalute

\* self._thread.join(timeout=10) returns after its 10 seconds with the thread
\* alive.  Two steps of the loop have no bound of their own: the probe
\* (requests' timeout=3 bounds each socket operation, not the request) and
\* the callback (gui/app.py calls self.after from the thread, which waits
\* for the GUI thread that is waiting in this join)
ferma_timeout ==
  /\ s_chiamante = "join"
  /\ s_pc[s_n] \in {"verifica", "callback"}
  /\ s_chiamante' = "idle"
  /\ UNCHANGED <<s_online, s_in_esecuzione, s_stop_event, s_n, s_pc, s_nuovo, s_ultimo>>
  /\ FuoriDaSalute

\* controlla_ora(): self._online = self._verifica_server(); esito is what
\* the probe finds
controlla_ora(esito) ==
  /\ s_chiamante = "idle"
  /\ s_online' = esito
  /\ UNCHANGED <<s_in_esecuzione, s_stop_event, s_n, s_pc, s_nuovo, s_chiamante, s_ultimo>>
  /\ FuoriDaSalute

\* _loop_controllo, "while not self._stop_event.is_set()"
Sonda_while(t) ==
  /\ s_pc[t] = "while"
  /\ s_pc' = [s_pc EXCEPT ![t] = IF s_stop_event THEN "dead" ELSE "verifica"]
  /\ UNCHANGED <<s_online, s_in_esecuzione, s_stop_event, s_n, s_nuovo, s_chiamante, s_ultimo>>
  /\ FuoriDaSalute

\* "nuovo_stato = self._verifica_server()"
Sonda_verifica(t, esito) ==
  /\ s_pc[t] = "verifica"
  /\ s_nuovo' = [s_nuovo EXCEPT ![t] = esito]
  /\ s_pc' = [s_pc EXCEPT ![t] = "confronta"]
  /\ UNCHANGED <<s_online, s_in_esecuzione, s_stop_event, s_n, s_chiamante, s_ultimo>>
  /\ FuoriDaSalute

\* "if nuovo_stato != self._online"
Sonda_confronta(t) ==
  /\ s_pc[t] = "confronta"
  /\ s_pc' = [s_pc EXCEPT ![t] = IF s_nuovo[t] # s_online THEN "scrivi" ELSE "attesa"]
  /\ UNCHANGED <<s_online, s_in_esecuzione, s_stop_event, s_n, s_nuovo, s_chiamante, s_ultimo>>
  /\ FuoriDaSalute

\* "self._online = nuovo_stato"
Sonda_scrivi(t) ==
  /\ s_pc[t] = "scrivi"
  /\ s_online' = s_nuovo[t]
  /\ s_pc' = [s_pc EXCEPT ![t] = "callback"]
  /\ UNCHANGED <<s_in_esecuzione, s_stop_event, s_n, s_nuovo, s_chiamante, s_ultimo>>
  /\ FuoriDaSalute

\* "self._callback_stato(nuovo_stato)" (gui/app.py registers a callback)
Sonda_callback(t) ==
  /\ s_pc[t] = "callback"
  /\ s_ultimo' = Stato(s_nuovo[t])
  /\ s_pc' = [s_pc EXCEPT ![t] = "attesa"]
  /\ UNCHANGED <<s_online, s_in_esecuzione, s_stop_event, s_n, s_nuovo, s_chiamante>>
  /\ FuoriDaSalute

\* "self._stop_event.wait(timeout=self._intervallo)" returns
Sonda_attesa(t) ==
  /\ s_pc[t] = "attesa"
  /\ s_pc' = [s_pc EXCEPT ![t] = "while"]
  /\ s_nuovo' = [s_nuovo EXCEPT ![t] = FALSE]
  /\ UNCHANGED <<s_online, s_in_esecuzione, s_stop_event, s_n, s_chiamante, s_ultimo>>
  /\ FuoriDaSalute

\* one step of HealthCheckThread t
_loop_controllo(t) ==
  \/ Sonda_while(t)
  \/ \E b \in BOOLEAN : Sonda_verifica(t, b)
  \/ Sonda_confronta(t)
  \/ Sonda_scrivi(t)
  \/ Sonda_callback(t)
  \/ Sonda_attesa(t)

\* --------------------------------- GestoreProvider (provider_manager.py)
\* what no method of GestoreProvider touches
FuoriDaGestore ==
  UNCHANGED <<coreVars, mainVars, pc, localVars, rtVars, ghostVars, dopoReset,
              registra, capienza, logVars, config_rt, config_avvio, saluteVars,
              visionVars, cuVars,
              letturaVars, gateVars, iniezioneVars>>

\* the dictionary provs with cfg stored under the key k
Registrando(provs, k, cfg) ==
  [x \in DOMAIN provs \cup {k} |-> IF x = k THEN cfg ELSE provs[x]]

\* registra_locale(api_base, modello)
registra_locale(api_base, modello) ==
  /\ providers' = Registrando(providers, "locale",
                     [api_base |-> api_base, modello |-> modello,
                      api_key |-> "not-needed", offline |-> TRUE,
                      contesto_max |-> 4096])
  /\ UNCHANGED <<provider_attivo, g_ritorno>>
  /\ FuoriDaGestore

\* registra_cloud(api_base, modello, api_key)
registra_cloud(api_base, modello, api_key) ==
  /\ providers' = Registrando(providers, "cloud",
                     [api_base |-> api_base, modello |-> modello,
                      api_key |-> api_key, offline |-> FALSE,
                      contesto_max |-> 64000])
  /\ UNCHANGED <<provider_attivo, g_ritorno>>
  /\ FuoriDaGestore

\* Registrato with the test of the key left out
Registrato_sempre(tipo, provs) == TRUE

\* "tipo in self._providers"
Registrato(tipo, provs) == tipo \in DOMAIN provs

\* seleziona_provider(tipo)
seleziona_provider(tipo) ==
  /\ IF Registrato(tipo, providers)
     THEN /\ provider_attivo' = tipo
          /\ g_ritorno' = Ritorno("seleziona_provider", TRUE, "", NessunaConfig)
     ELSE /\ UNCHANGED provider_attivo
          /\ g_ritorno' = Ritorno("seleziona_provider", FALSE, "", NessunaConfig)
  /\ UNCHANGED providers
  /\ FuoriDaGestore

\* ProviderDellaChiave with the key written into the active provider
ProviderDellaChiave_attivo(attivo) == attivo

\* aggiorna_api_key writes self._providers["cloud"], whichever is active
ProviderDellaChiave(attivo) == "cloud"

\* aggiorna_api_key(api_key)
aggiorna_api_key(api_key) ==
  LET k == ProviderDellaChiave(provider_attivo) IN
  /\ providers' = IF k \in DOMAIN providers
                   THEN [providers EXCEPT ![k].api_key = api_key]
                   ELSE providers
  /\ UNCHANGED <<provider_attivo, g_ritorno>>
  /\ FuoriDaGestore

\* ottieni_config_attiva() is not None
AttivoRegistrato(provs, attivo) == attivo \in DOMAIN provs

\* the dictionary ottieni_config_interpreter returns: its keys and their
\* values ("api_key" only "if config.api_key")
ConfigInterpreter(provs, attivo) ==
  IF ~AttivoRegistrato(provs, attivo) THEN NessunaConfig
  ELSE LET config == provs[attivo]
           campi == {"api_base", "model", "offline", "temperature", "context_window"}
                      \cup (IF config.api_key # "" THEN {"api_key"} ELSE {})
       IN [f \in campi |->
             CASE f = "api_base" -> config.api_base
               [] f = "model" -> config.modello
               [] f = "offline" -> config.offline
               [] f = "temperature" -> "0.7"
               [] f = "context_window" -> config.contesto_max
               [] f = "api_key" -> config.api_key]

\* ottieni_config_interpreter()
ottieni_config_interpreter ==
  /\ g_ritorno' = Ritorno("ottieni_config_interpreter", TRUE, "",
                          ConfigInterpreter(providers, provider_attivo))
  /\ UNCHANGED <<providers, provider_attivo>>
  /\ FuoriDaGestore

\* ChiaveMancante without the test of the placeholder
ChiaveMancante_vuota(api_key) == api_key = ""

\* "not config.api_key or config.api_key == 'not-needed'"
ChiaveMancante(api_key) == api_key = "" \/ api_key = "not-needed"

\* a check of the URL that accepts every value
BaseMancante_mai(api_base) == FALSE

\* "not config.api_base"
BaseMancante(api_base) == api_base = ""

\* the tuple verifica_config_valida returns
ConfigValida(provs, attivo) ==
  IF ~AttivoRegistrato(provs, attivo)
  THEN <<FALSE, "Nessun provider configurato">>
  ELSE LET config == provs[attivo] IN
       IF BaseMancante(config.api_base) THEN <<FALSE, "URL API base mancante">>
       ELSE IF config.modello = "" THEN <<FALSE, "Modello non specificato">>
       ELSE IF attivo = "cloud" /\ ChiaveMancante(config.api_key)
            THEN <<FALSE, "API key OpenRouter mancante! Inseriscila nelle impostazioni.">>
       ELSE <<TRUE, "Configurazione valida">>

\* verifica_config_valida()
verifica_config_valida ==
  /\ g_ritorno' = LET r == ConfigValida(providers, provider_attivo)
                  IN Ritorno("verifica_config_valida", r[1], r[2], NessunaConfig)
  /\ UNCHANGED <<providers, provider_attivo>>
  /\ FuoriDaGestore

\* ------------------------------------------ screenshot hand-off (vision.py)
\* invia_messaggio calls imposta_screenshot_pendente in the GUI thread; the
\* patched litellm.completion calls preleva_screenshot_pendente in the thread
\* of the Turn whose runtime calls the model, and the thread of a Turn can
\* outlive the flag that lets the next Turn start.  The module has no lock.
FuoriDaVision ==
  UNCHANGED <<coreVars, mainVars, pc, localVars, rtVars, ghostVars, dopoReset,
              registra, capienza, logVars, cfgVars, saluteVars, gestoreVars, cuVars,
              letturaVars, gateVars, iniezioneVars>>

\* abilita_vision(abilitata), called by the GUI thread
abilita_vision(abilitata) ==
  /\ GuiIdle
  /\ vision_abilitata' = abilitata
  /\ UNCHANGED <<coreVars, mainVars, pc, localVars, rtVars, ghostVars, dopoReset,
                 registra, capienza, logVars, cfgVars, saluteVars, gestoreVars,
                 visionVars, cuVars, letturaVars, gateVars, v_turno>>

\* imposta_screenshot_pendente(): cattura_screenshot returns a new image
\* (esito "ok") or None, and the result is stored
imposta_screenshot_pendente(esito) ==
  LET img == IF esito = "ok" THEN v_n + 1 ELSE Nessuna IN
  /\ esito = "ok" => v_n < MaxImmagini
  /\ screenshot_pendente' = img
  /\ v_n' = IF esito = "ok" THEN v_n + 1 ELSE v_n
  /\ v_atteso' = img
  /\ UNCHANGED <<v_pc, v_screenshot, v_resi>>
  /\ FuoriDaVision

\* preleva_screenshot_pendente, "screenshot = _screenshot_pendente"
Preleva_legge(w) ==
  /\ v_pc[w] = "idle"
  /\ v_screenshot' = [v_screenshot EXCEPT ![w] = screenshot_pendente]
  /\ v_pc' = [v_pc EXCEPT ![w] = "azzera"]
  /\ v_atteso' = IF screenshot_pendente = v_atteso THEN Nessuna ELSE v_atteso
  /\ UNCHANGED <<screenshot_pendente, v_n, v_resi>>
  /\ FuoriDaVision

\* "_screenshot_pendente = None; return screenshot"
Preleva_azzera(w) ==
  /\ v_pc[w] = "azzera"
  /\ screenshot_pendente' = Nessuna
  /\ v_resi' = IF v_screenshot[w] # Nessuna
                THEN Append(v_resi, v_screenshot[w]) ELSE v_resi
  /\ v_screenshot' = [v_screenshot EXCEPT ![w] = Nessuna]
  /\ v_pc' = [v_pc EXCEPT ![w] = "idle"]
  /\ UNCHANGED <<v_n, v_atteso>>
  /\ FuoriDaVision

\* one step of a call of preleva_screenshot_pendente in thread w
preleva_screenshot_pendente(w) == Preleva_legge(w) \/ Preleva_azzera(w)

\* --------------------------------- automation facade (computer_use.py)
FuoriDaComputerUse ==
  UNCHANGED <<coreVars, mainVars, pc, localVars, rtVars, ghostVars, dopoReset,
              registra, capienza, logVars, cfgVars, saluteVars, gestoreVars,
              visionVars,
              letturaVars, gateVars, iniezioneVars>>

\* the functions that test the flag and catch pyautogui.FailSafeException
ConFailsafe == {"muovi_mouse", "clicca", "trascina", "scroll", "scrivi_testo",
                "scrivi_testo_clipboard", "premi_tasto", "combinazione_tasti",
                "tieni_premuto"}
\* the functions that test the flag and catch Exception only
SoloGate == {"screenshot", "trova_immagine", "attiva_finestra"}
\* the functions that do not test the flag
SenzaGate == {"posizione_mouse", "dimensione_schermo", "lista_finestre", "attendi"}
Funzioni == ConFailsafe \cup SoloGate \cup SenzaGate
\* what the call meets: it goes through, the failsafe fires, another
\* exception is raised, or the library cannot be imported
EsitiOS == {"ok", "failsafe", "errore", "assente"}

\* abilita_computer_use(abilitato), called in process p
abilita_computer_use(p, abilitato) ==
  /\ computer_use_abilitato' = [computer_use_abilitato EXCEPT ![p] = abilitato]
  /\ cu_scattato' = [cu_scattato EXCEPT ![p] = IF abilitato THEN FALSE ELSE @]
  /\ UNCHANGED <<cu_ritorno, cu_azioni>>
  /\ FuoriDaComputerUse

\* patched_preprocess_code: when the flag of the application is set and the
\* block names a function of the facade without importing it, import_block
\* is prepended, and the subprocess runs its "abilita_computer_use(True)"
Blocco_import ==
  /\ computer_use_abilitato["app"]
  /\ computer_use_abilitato' = [computer_use_abilitato EXCEPT !["sub"] = TRUE]
  /\ UNCHANGED <<cu_ritorno, cu_azioni, cu_scattato>>
  /\ FuoriDaComputerUse

\* a function that tests the flag, called in process p.  parte: the call
\* had reached the operating system when the exception was raised
ChiamataConGate(p, f, esito, parte) ==
  /\ f \in ConFailsafe \cup SoloGate
  /\ esito = "failsafe" => f \in ConFailsafe
  /\ IF ~computer_use_abilitato[p] \/ esito = "assente"
     THEN /\ cu_ritorno' = [op |-> f, ok |-> FALSE]
          /\ UNCHANGED <<computer_use_abilitato, cu_azioni, cu_scattato>>
     ELSE /\ cu_azioni < MaxAzioni
          /\ cu_azioni' = IF esito = "ok" \/ parte THEN cu_azioni + 1 ELSE cu_azioni
          /\ cu_ritorno' = [op |-> f, ok |-> esito = "ok"]
          /\ computer_use_abilitato' =
                IF esito = "failsafe"
                THEN [computer_use_abilitato EXCEPT ![p] = FALSE]
                ELSE computer_use_abilitato
          /\ cu_scattato' = IF esito = "failsafe"
                            THEN [cu_scattato EXCEPT ![p] = TRUE] ELSE cu_scattato
  /\ FuoriDaComputerUse

\* posizione_mouse, dimensione_schermo, lista_finestre, attendi: no test of
\* the flag.  The first two return (0, 0) without pyautogui, lista_finestre
\* returns [] on an exception, attendi sleeps and returns None
ChiamataSenzaGate(p, f, esito) ==
  /\ f \in SenzaGate
  /\ esito \in {"ok", "assente"}
  /\ f = "attendi" => esito = "ok"
  /\ IF esito = "ok"
     THEN /\ cu_azioni < MaxAzioni
          /\ cu_azioni' = cu_azioni + 1
          /\ cu_ritorno' = [op |-> f, ok |-> f # "attendi"]
     ELSE /\ cu_ritorno' = [op |-> f, ok |-> FALSE]
          /\ UNCHANGED cu_azioni
  /\ UNCHANGED <<computer_use_abilitato, cu_scattato>>
  /\ FuoriDaComputerUse

\* a call of the function f of the facade in process p
Chiamata(p, f, esito, parte) ==
  \/ ChiamataConGate(p, f, esito, parte)
  \/ ~parte /\ ChiamataSenzaGate(p, f, esito)

\* ------------------------------------------------------ specifications
Esiti == {"ok", "import_error", "errore"}

\* The Turn protocol: configure, submit, approve, stop, auto-run, drain, and
\* the worker threads.
Next ==
  \/ \E e \in Esiti : inizializza_interpreter(e)
  \/ \E m \in UserMsgs : invia_messaggio(m)
  \/ emergency_stop
  \/ \E a \in BOOLEAN : approva_esecuzione(a)
  \/ leggi_messaggi
  \/ \E v \in BOOLEAN : imposta_auto_run(v)
  \/ \E w \in Turni : Elabora_next(w)
  \/ \E w \in Turni : Elabora_chunk(w)
  \/ \E w \in Turni : Elabora_richiesta(w)
  \/ \E w \in Turni : Elabora_attesa(w)
  \/ \E w \in Turni : Elabora_decisione(w)
  \/ \E w \in Turni : Elabora_fine(w)
  \/ \E w \in Turni : Elabora_errore(w)
  \/ \E w \in Turni : Elabora_finally(w)

Spec == Init /\ [][Next]_vars

\* The Turn protocol of a configured Core whose user submits and stops and
\* takes no decision at the approval gate.
NextStop ==
  \/ inizializza_interpreter("ok")
  \/ \E m \in UserMsgs : invia_messaggio(m)
  \/ emergency_stop
  \/ leggi_messaggi
  \/ \E w \in Turni : Elabora_next(w)
  \/ \E w \in Turni : Elabora_chunk(w)
  \/ \E w \in Turni : Elabora_richiesta(w)
  \/ \E w \in Turni : Elabora_attesa(w)
  \/ \E w \in Turni : Elabora_decisione(w)
  \/ \E w \in Turni : Elabora_fine(w)
  \/ \E w \in Turni : Elabora_errore(w)
  \/ \E w \in Turni : Elabora_finally(w)

\* The scheduler runs every thread that can take a step and Tk's timer calls
\* leggi_messaggi every 100ms (app.py, _avvia_polling); the other methods are
\* called only when the user acts.  A worker's put waits here only for the
\* polling to make room under MaxQueue, so a worker that can step again and
\* again does step: its fairness is strong.
FairSpec == Init /\ [][NextStop]_vars
                 /\ WF_vars(leggi_messaggi)
                 /\ \A w \in Turni : SF_vars(_elabora_messaggio(w))

\* The Turn protocol together with the methods that clear the conversation.
NextConv ==
  \/ Next
  \/ nuova_conversazione
  \/ riconfigura_stop
  \/ \E e \in Esiti : riconfigura(e)

SpecConv == Init /\ [][NextConv]_vars

\* The Turn protocol of NextStop with the methods that clear the
\* conversation.
NextReset ==
  \/ inizializza_interpreter("ok")
  \/ \E m \in UserMsgs : invia_messaggio(m)
  \/ emergency_stop
  \/ leggi_messaggi
  \/ nuova_conversazione
  \/ riconfigura_stop
  \/ \E e \in Esiti : riconfigura(e)
  \/ \E w \in Turni : Elabora_next(w)
  \/ \E w \in Turni : Elabora_chunk(w)
  \/ \E w \in Turni : Elabora_richiesta(w)
  \/ \E w \in Turni : Elabora_attesa(w)
  \/ \E w \in Turni : Elabora_decisione(w)
  \/ \E w \in Turni : Elabora_fine(w)
  \/ \E w \in Turni : Elabora_errore(w)
  \/ \E w \in Turni : Elabora_finally(w)

SpecReset == Init /\ [][NextReset]_vars

EsitiCambio == Esiti \cup {"non_valida"}

\* The Turn protocol of a user who submits, decides at the gate and switches
\* the provider, and never stops a Turn.
NextProvider ==
  \/ inizializza_interpreter("ok")
  \/ \E m \in UserMsgs : invia_messaggio(m)
  \/ \E a \in BOOLEAN : approva_esecuzione(a)
  \/ leggi_messaggi
  \/ \E p \in Providers, e \in EsitiCambio : cambio_provider(p, e)
  \/ \E w \in Turni : Elabora_next(w)
  \/ \E w \in Turni : Elabora_chunk(w)
  \/ \E w \in Turni : Elabora_richiesta(w)
  \/ \E w \in Turni : Elabora_attesa(w)
  \/ \E w \in Turni : Elabora_decisione(w)
  \/ \E w \in Turni : Elabora_fine(w)
  \/ \E w \in Turni : Elabora_errore(w)
  \/ \E w \in Turni : Elabora_finally(w)

SpecProvider == Init /\ [][NextProvider]_vars

\* The Turn protocol of a user who submits and decides at the gate, with the
\* observer recording what is put in the queue and what is delivered.
InitScenario == Inizio(TRUE, MaxQueueScenario, MaxChunksScenario)

NextScenario ==
  \/ inizializza_interpreter("ok")
  \/ \E m \in UserMsgs : invio_gui(m)
  \/ \E a \in BOOLEAN : decisione_gui(a)
  \/ leggi_messaggi
  \/ \E w \in Turni : Elabora_next(w)
  \/ \E w \in Turni : Elabora_chunk(w)
  \/ \E w \in Turni : Elabora_richiesta(w)
  \/ \E w \in Turni : Elabora_attesa(w)
  \/ \E w \in Turni : Elabora_decisione(w)
  \/ \E w \in Turni : Elabora_fine(w)
  \/ \E w \in Turni : Elabora_errore(w)
  \/ \E w \in Turni : Elabora_finally(w)

SpecScenario == InitScenario /\ [][NextScenario]_vars

\* A Core whose first Turn is stopped at its gate and has been polled:
\* the state after inizializza_interpreter, invia_messaggio("u1"), the
\* chunks start_of_code, code "a", end_of_code and executing, the put of the
\* approval request, and leggi_messaggi.
InitGate ==
  /\ interpreter = "set"
  /\ interp_messages = <<[role |-> "user", message |-> "u1"],
                        [role |-> "assistant", message |-> "r1"]>>
  /\ coda_messaggi = <<>>
  /\ in_esecuzione = TRUE
  /\ stop_richiesto = FALSE
  /\ in_attesa_approvazione = TRUE
  /\ approvazione_risposta = "None"
  /\ cronologia = <<[role |-> "user", message |-> "u1"]>>
  /\ auto_run = FALSE
  /\ main_pc = "idle"
  /\ n_thread = 1
  /\ pc = [w \in Turni |-> IF w = 1 THEN "attesa" ELSE "idle"]
  /\ messaggio_arg = [w \in Turni |-> IF w = 1 THEN "u1" ELSE ""]
  /\ chunk = [w \in Turni |-> IF w = 1 THEN ChunkExec(<<"a">>, "python") ELSE NoChunk]
  /\ linguaggio_corrente = [w \in Turni |-> "python"]
  /\ codice_accumulato = [w \in Turni |-> <<>>]
  /\ in_blocco_codice = [w \in Turni |-> FALSE]
  /\ in_blocco_messaggio = [w \in Turni |-> FALSE]
  /\ rt = [w \in Turni |-> IF w = 1 THEN "intent" ELSE "unborn"]
  /\ rt_code = [w \in Turni |-> IF w = 1 THEN <<"a">> ELSE <<>>]
  /\ rt_lang = [w \in Turni |-> "python"]
  /\ budget = MaxChunksGate
  /\ nfinal = [w \in Turni |-> 0]
  /\ mode = [w \in Turni |-> IF w = 1 THEN "gated" ELSE "none"]
  /\ okAfter = [w \in Turni |-> FALSE]
  /\ firstDec = [w \in Turni |-> "unset"]
  /\ stopAtGate = [w \in Turni |-> FALSE]
  /\ stopSince = [w \in Turni |-> FALSE]
  /\ dopoReset = FALSE
  /\ config_avvio = [w \in Turni |-> IF w = 1 THEN "locale" ELSE "nessuno"]
  /\ registra = FALSE
  /\ capienza = MaxQueue
  /\ prodotti = <<>>
  /\ consegnati = <<>>
  /\ flusso = [w \in Turni |-> <<>>]
  /\ provider_attivo = "locale"
  /\ config_rt = "locale"
  /\ s_online = FALSE
  /\ s_in_esecuzione = FALSE
  /\ s_stop_event = FALSE
  /\ s_n = 0
  /\ s_pc = [t \in Sonde |-> "idle"]
  /\ s_nuovo = [t \in Sonde |-> FALSE]
  /\ s_chiamante = "idle"
  /\ s_ultimo = "nessuno"
  /\ providers = NessunProvider
  /\ g_ritorno = Ritorno("nessuna", FALSE, "", NessunaConfig)
  /\ screenshot_pendente = Nessuna
  /\ v_pc = [w \in Turni |-> "idle"]
  /\ v_screenshot = [w \in Turni |-> Nessuna]
  /\ v_n = 0
  /\ v_atteso = Nessuna
  /\ v_resi = <<>>
  /\ computer_use_abilitato = [p \in Processi |-> FALSE]
  /\ cu_ritorno = [op |-> "nessuna", ok |-> FALSE]
  /\ cu_azioni = 0
  /\ cu_scattato = [p \in Processi |-> FALSE]
  /\ decisione_letta = FALSE
  /\ vision_abilitata = FALSE
  /\ v_turno = 0
  /\ l_pc = "idle"
  /\ l_messaggi = <<>>

\* The Turn protocol from there on: the user decides, stops and submits
\* again while the first Turn's thread is at its gate.
NextGate ==
  \/ \E m \in UserMsgs : invia_messaggio(m)
  \/ emergency_stop
  \/ \E a \in BOOLEAN : approva_esecuzione(a)
  \/ leggi_messaggi
  \/ \E w \in Turni : Elabora_next(w)
  \/ \E w \in Turni : Elabora_chunk(w)
  \/ \E w \in Turni : Elabora_richiesta(w)
  \/ \E w \in Turni : Elabora_attesa(w)
  \/ \E w \in Turni : Elabora_decisione(w)
  \/ \E w \in Turni : Elabora_fine(w)
  \/ \E w \in Turni : Elabora_errore(w)
  \/ \E w \in Turni : Elabora_finally(w)

SpecGate == InitGate /\ [][NextGate]_vars

\* The Turn protocol of a user who switches vision on and off, submits and
\* stops, and takes no decision at the gate.
NextIniezione ==
  \/ inizializza_interpreter("ok")
  \/ \E b \in BOOLEAN : abilita_vision(b)
  \/ \E m \in UserMsgs : invia_messaggio(m)
  \/ emergency_stop
  \/ leggi_messaggi
  \/ \E w \in Turni : Elabora_next(w)
  \/ \E w \in Turni : Elabora_chunk(w)
  \/ \E w \in Turni : Elabora_richiesta(w)
  \/ \E w \in Turni : Elabora_attesa(w)
  \/ \E w \in Turni : Elabora_decisione(w)
  \/ \E w \in Turni : Elabora_fine(w)
  \/ \E w \in Turni : Elabora_errore(w)
  \/ \E w \in Turni : Elabora_finally(w)

SpecIniezione == Init /\ [][NextIniezione]_vars

\* The health monitor: its caller and its threads.
NextSalute ==
  \/ avvia
  \/ ferma
  \/ ferma_join
  \/ ferma_timeout
  \/ \E b \in BOOLEAN : controlla_ora(b)
  \/ \E t \in Sonde : Sonda_while(t)
  \/ \E t \in Sonde, b \in BOOLEAN : Sonda_verifica(t, b)
  \/ \E t \in Sonde : Sonda_confronta(t)
  \/ \E t \in Sonde : Sonda_scrivi(t)
  \/ \E t \in Sonde : Sonda_callback(t)
  \/ \E t \in Sonde : Sonda_attesa(t)

SpecSalute == Init /\ [][NextSalute]_vars

\* GestoreProvider and its caller.
NextGestore ==
  \/ \E b \in Basi, m \in Modelli : registra_locale(b, m)
  \/ \E b \in Basi, m \in Modelli, k \in ChiaviApi : registra_cloud(b, m, k)
  \/ \E t \in Chiavi : seleziona_provider(t)
  \/ \E k \in ChiaviApi : aggiorna_api_key(k)
  \/ ottieni_config_interpreter
  \/ verifica_config_valida

SpecGestore == Init /\ [][NextGestore]_vars

\* The screenshot slot, the GUI thread that fills it and the Turns' threads
\* that empty it.
NextVision ==
  \/ \E e \in {"ok", "errore"} : imposta_screenshot_pendente(e)
  \/ \E w \in Turni : Preleva_legge(w)
  \/ \E w \in Turni : Preleva_azzera(w)

SpecVision == Init /\ [][NextVision]_vars

\* The automation facade in the application and in the subprocess that
\* runs the model's code.
NextComputerUse ==
  \/ \E p \in Processi, b \in BOOLEAN : abilita_computer_use(p, b)
  \/ Blocco_import
  \/ \E p \in Processi, f \in Funzioni, e \in EsitiOS, parte \in BOOLEAN :
        ChiamataConGate(p, f, e, parte)
  \/ \E p \in Processi, f \in Funzioni, e \in EsitiOS :
        ChiamataSenzaGate(p, f, e)

SpecComputerUse == Init /\ [][NextComputerUse]_vars

\* Polling statement by statement: the GUI thread that submits, resets and
\* polls, the Turns' threads (a Turn that asks for an approval waits for it
\* without end), and the observer of the queue.
InitLettura == Inizio(TRUE, MaxQueueScenario, MaxChunks)

NextLettura ==
  \/ l_pc = "idle" /\ inizializza_interpreter("ok")
  \/ \E m \in UserMsgs : l_pc = "idle" /\ invio_gui(m)
  \/ l_pc = "idle" /\ nuova_conversazione
  \/ Leggi_inizio
  \/ Leggi_while
  \/ Leggi_get
  \/ \E w \in Turni : Elabora_next(w)
  \/ \E w \in Turni : Elabora_chunk(w)
  \/ \E w \in Turni : Elabora_richiesta(w)
  \/ \E w \in Turni : Elabora_fine(w)
  \/ \E w \in Turni : Elabora_errore(w)
  \/ \E w \in Turni : Elabora_finally(w)

SpecLettura == InitLettura /\ [][NextLettura]_vars

\* ------------------------------------------------------------ type check
TypeOK ==
  /\ interpreter \in {"None", "set"}
  /\ in_esecuzione \in BOOLEAN /\ stop_richiesto \in BOOLEAN
  /\ in_attesa_approvazione \in BOOLEAN /\ auto_run \in BOOLEAN
  /\ approvazione_risposta \in {"None", "True", "False"}
  /\ main_pc \in {"idle", "sleep"}
  /\ n_thread \in 0..MaxTurns
  /\ budget \in 0..MaxChunks \/ (registra /\ budget \in 0..MaxChunksScenario)
  /\ Len(coda_messaggi) <= capienza
  /\ \A w \in Turni :
       /\ pc[w] \in {"idle", "next", "chunk", "richiesta", "attesa", "decisione",
                     "fine", "errore", "finally", "dead"}
       /\ rt[w] \in {"unborn", "start", "top", "msg", "aftermsg", "code", "endcode",
                     "intent", "done"}
       /\ Len(rt_code[w]) <= MaxCode
       /\ (w > n_thread <=> pc[w] = "idle")
       /\ config_avvio[w] \in Providers \cup {"nessuno"}
  /\ dopoReset \in BOOLEAN /\ registra \in BOOLEAN
  /\ provider_attivo \in Providers
  /\ config_rt \in Providers \cup {"nessuno"}
  /\ s_online \in BOOLEAN /\ s_in_esecuzione \in BOOLEAN /\ s_stop_event \in BOOLEAN
  /\ s_n \in 0..MaxSalute
  /\ s_chiamante \in {"idle", "join"}
  /\ s_ultimo \in {"nessuno", "True", "False"}
  /\ \A t \in Sonde :
       /\ s_pc[t] \in {"idle", "while", "verifica", "confronta", "scrivi", "callback",
                       "attesa", "dead"}
       /\ s_nuovo[t] \in BOOLEAN
  /\ DOMAIN providers \subseteq Providers
  /\ g_ritorno.ok \in BOOLEAN
  /\ screenshot_pendente \in 0..MaxImmagini /\ v_atteso \in 0..MaxImmagini
  /\ v_n \in 0..MaxImmagini
  /\ \A w \in Turni : v_pc[w] \in {"idle", "azzera"} /\ v_screenshot[w] \in 0..MaxImmagini
  /\ cu_azioni \in 0..MaxAzioni
  /\ \A p \in Processi : computer_use_abilitato[p] \in BOOLEAN /\ cu_scattato[p] \in BOOLEAN
  /\ decisione_letta \in BOOLEAN
  /\ vision_abilitata \in BOOLEAN
  /\ v_turno \in 0..MaxTurns
  /\ cu_ritorno.op \in Funzioni \cup {"nessuna"}
  /\ l_pc \in {"idle", "while", "get"}
  /\ Len(l_messaggi) + Len(coda_messaggi) <= Len(prodotti) \/ ~registra

\* ---------------------------------------------------------------- claims
\* the step in which the runtime runs the code of w's pending intent: the
\* generator is resumed while suspended at the yield of "executing"
Esegue(w) == pc[w] = "next" /\ rt[w] = "intent" /\ pc'[w] # "next"

\* the step in which w resumes the runtime's stream
Riprende(w) == pc[w] = "next" /\ pc'[w] # "next"

\* C1: with auto-run disabled at the intent, the runtime runs the code of an
\* intent only if approva_esecuzione(True) was called after the
\* ApprovalRequest of that intent was put in the queue.
C1_NoRunBeforeApproval ==
  [][\A w \in Turni : (Esegue(w) /\ mode[w] = "gated") => okAfter[w]]_vars

\* C2: the worker acts on the first decision recorded while it waits at the
\* gate: after a first approva_esecuzione(False) the code of the intent is
\* never run.
C2_FirstDecisionWins ==
  [][\A w \in Turni : Esegue(w) => firstDec[w] # "no"]_vars

\* C3: at most one worker thread is alive at any instant.
C3_OneWorker == Cardinality({w \in Turni : Alive(w)}) <= 1

\* C4: if emergency_stop is called while the worker waits at the gate, the
\* code of that gate is never run afterwards.
C4_StopAtGateNoRun ==
  [][\A w \in Turni : Esegue(w) => ~stopAtGate[w]]_vars

\* C5: after emergency_stop the worker of the active Turn eventually ends.
C5_StopTerminates ==
  \A w \in Turni : stopSince[w] ~> (pc[w] = "dead")

\* C6: once emergency_stop has been called during a Turn, its worker never
\* resumes the runtime's stream again.
C6_NoResumeAfterStop ==
  [][\A w \in Turni : Riprende(w) => ~stopSince[w]]_vars

\* C7: every Turn's worker has put exactly one final Status in the queue
\* when it ends.
C7_OneFinalStatus ==
  \A w \in Turni : pc[w] = "dead" => nfinal[w] = 1


\* C8: a worker whose runtime call raised puts an Error event in the queue,
\* ends like any other worker (the exception goes no further) and leaves
\* _in_esecuzione False with the runtime still configured, which is the state
\* in which invia_messaggio accepts; and _in_esecuzione is never True with
\* no worker alive, so no failed Turn leaves the Core busy.
C8_FailedTurnClearsFlag ==
  [][\A w \in Turni :
       /\ (pc[w] = "next" /\ pc'[w] = "errore") => Alive(w)'
       /\ (pc[w] = "errore" /\ pc'[w] # "errore") =>
             /\ pc'[w] = "finally"
             /\ coda_messaggi' = Append(coda_messaggi, MsgErrore("Errore"))
       /\ (pc[w] = "finally" /\ pc'[w] # "finally") =>
             /\ pc'[w] = "dead"
             /\ ~in_esecuzione'
             /\ interpreter' = "set"
       /\ in_esecuzione' => \E v \in Turni : Alive(v)'
    ]_vars

\* a failed Turn is over: its worker ended without a final Status, after the
\* except clause, and the Core is configured and not running
C8_Witness ==
  \E w \in Turni : pc[w] = "dead" /\ nfinal[w] = 0 /\ ~in_esecuzione /\ interpreter = "set"

\* the states in which invia_messaggio returns False
Rifiuta == interpreter = "None" \/ in_esecuzione

\* C9: an invia_messaggio call made when the runtime is not configured or a
\* Turn is running puts exactly one Error event in the queue, starts no
\* thread, and leaves the history, the three flags and the decision slot as
\* they were.
C9_RejectedSubmit ==
  [][\A m \in UserMsgs :
       (Rifiuta /\ invia_messaggio(m)) =>
          /\ Len(coda_messaggi') = Len(coda_messaggi) + 1
          /\ SubSeq(coda_messaggi', 1, Len(coda_messaggi)) = coda_messaggi
          /\ coda_messaggi'[Len(coda_messaggi')].tipo = "error"
          /\ n_thread' = n_thread /\ pc' = pc
          /\ cronologia' = cronologia
          /\ stop_richiesto' = stop_richiesto
          /\ in_esecuzione' = in_esecuzione
          /\ in_attesa_approvazione' = in_attesa_approvazione
          /\ approvazione_risposta' = approvazione_risposta
    ]_vars

\* a submit was just rejected as Busy after an emergency_stop had set the
\* cancellation flag and an approval had been recorded
C9_Witness ==
  /\ coda_messaggi # <<>>
  /\ coda_messaggi[Len(coda_messaggi)] =
        MsgErrore("L'interprete sta gia' elaborando un messaggio.")
  /\ in_esecuzione
  /\ cronologia # <<>>

\* the worker's loop body handles chunk c of kind k: it is at the chunk, no
\* STOP is pending, and it goes back to the top of the loop
Tratta(w, k) ==
  /\ pc[w] = "chunk" /\ chunk[w].key = k /\ ~stop_richiesto /\ pc'[w] = "next"

\* a string with nothing but blanks (or nothing at all)
SoloSpazi(s) == \A i \in 1..Len(s) : s[i] = " "

\* the step puts no Code event in the queue
NessunCodice ==
  \/ coda_messaggi' = coda_messaggi
  \/ /\ Len(coda_messaggi') = Len(coda_messaggi) + 1
     /\ coda_messaggi'[Len(coda_messaggi')].tipo # "code"

\* the step puts exactly one event in the queue, a Code event of content c
UnCodice(c) ==
  /\ coda_messaggi' = Append(coda_messaggi, coda_messaggi'[Len(coda_messaggi')])
  /\ coda_messaggi'[Len(coda_messaggi')].tipo = "code"
  /\ coda_messaggi'[Len(coda_messaggi')].contenuto = c

\* C10 as stated: handling end_of_code puts exactly one Code event holding the
\* concatenation of the block's fragments (the runtime's rt_code), and
\* handling the chunks of the open block puts no Code event.
C10_OneCodePerBlock ==
  [][\A w \in Turni :
       /\ Tratta(w, "end_of_code") => UnCodice(rt_code[w])
       /\ \A k \in {"start_of_code", "language", "code"} : Tratta(w, k) => NessunCodice
    ]_vars

\* C10 amended: handling end_of_code puts one Code event holding the
\* concatenation when the concatenation has a character that is not a blank,
\* and nothing when it is empty or blank; handling the chunks of the open
\* block puts no Code event; and the execution-intent of a block puts one
\* more Code event, holding the code the runtime is about to run.
C10_OneCodePerNonBlankBlock ==
  [][\A w \in Turni :
       /\ Tratta(w, "end_of_code") =>
             IF SoloSpazi(rt_code[w])
             THEN coda_messaggi' = coda_messaggi
             ELSE UnCodice(rt_code[w])
       /\ \A k \in {"start_of_code", "language", "code"} : Tratta(w, k) => NessunCodice
       /\ (pc[w] = "chunk" /\ chunk[w].key = "executing" /\ ~stop_richiesto
             /\ pc'[w] # "chunk") =>
             IF chunk[w].val = <<>>
             THEN coda_messaggi' = coda_messaggi
             ELSE UnCodice(chunk[w].val)
    ]_vars

\* the Code event of a block of two fragments has just been put in the queue
C10_Witness ==
  \E w \in Turni :
    /\ pc[w] = "next" /\ rt[w] = "endcode" /\ Len(rt_code[w]) = 2
    /\ coda_messaggi # <<>>
    /\ coda_messaggi[Len(coda_messaggi)] = MsgCodice(rt_code[w], linguaggio_corrente[w])


\* C12: when auto-run is enabled as the worker handles an execution-intent,
\* the worker puts the Code event of the intent and nothing else in the
\* queue, leaves _in_attesa_approvazione and the decision slot as they were
\* (no gate, no ApprovalRequest) and goes straight back to the stream.
C12_AutoRunNoGate ==
  [][\A w \in Turni :
       (/\ pc[w] = "chunk" /\ chunk[w].key = "executing"
        /\ ~stop_richiesto /\ auto_run /\ pc'[w] # "chunk") =>
          /\ coda_messaggi' = Append(coda_messaggi, MsgCodice(chunk[w].val, chunk[w].lang))
          /\ in_attesa_approvazione' = in_attesa_approvazione
          /\ approvazione_risposta' = approvazione_risposta
          /\ pc'[w] = "next"
    ]_vars

\* an intent has just been handled under auto-run: its Code event is the
\* last in the queue, no gate is open and the worker is about to resume the
\* stream
C12_Witness ==
  \E w \in Turni :
    /\ mode[w] = "auto" /\ pc[w] = "next" /\ rt[w] = "intent"
    /\ ~in_attesa_approvazione
    /\ coda_messaggi # <<>>
    /\ coda_messaggi[Len(coda_messaggi)] = MsgCodice(rt_code[w], rt_lang[w])

\* no Turn is active: the flag is down and no worker thread is alive
Inattivo == ~in_esecuzione /\ \A w \in Turni : ~Alive(w)

\* C14: emergency_stop called when no Turn is active leaves the queue, the
\* history and the running flag as they were.
C14_IdleStopNoOp ==
  [][(Inattivo /\ emergency_stop) =>
        /\ coda_messaggi' = coda_messaggi
        /\ cronologia' = cronologia
        /\ in_esecuzione' = in_esecuzione
    ]_vars

\* worker w is at an ApprovalGate: between "self._in_attesa_approvazione =
\* True" and the test that follows the wait loop
AlGate(w) == pc[w] \in {"richiesta", "attesa", "decisione"}

\* C15: a decision recorded while no gate is pending does not decide the
\* next gate: the step that opens a gate empties the decision slot; from
\* then on only approva_esecuzione (or the opening of another gate) writes
\* the slot; the wait ends, with no STOP, only on a decision recorded in it;
\* and the stream is resumed only on True.
C15_EarlyApproveIgnored ==
  [][/\ \A w \in Turni :
          /\ (pc[w] = "chunk" /\ pc'[w] = "richiesta") => approvazione_risposta' = "None"
          /\ (pc[w] = "attesa" /\ pc'[w] = "decisione" /\ ~stop_richiesto) =>
                approvazione_risposta # "None"
          /\ (pc[w] = "decisione" /\ pc'[w] = "next") => approvazione_risposta = "True"
     /\ approvazione_risposta' # approvazione_risposta =>
          \/ \E a \in BOOLEAN : approva_esecuzione(a)
          \/ \E w \in Turni : pc[w] = "chunk" /\ pc'[w] = "richiesta"
    ]_vars

\* a decision was recorded while no gate was pending, and a worker is about
\* to open a gate
C15_Witness ==
  /\ approvazione_risposta = "True"
  /\ ~in_attesa_approvazione
  /\ \A v \in Turni : ~AlGate(v)
  /\ \E w \in Turni : pc[w] = "chunk" /\ ApreGate(chunk[w]) /\ ~stop_richiesto


\* C20: the monitor calls the callback only on a transition: no callback
\* invocation carries the value the previous invocation carried.
C20_CallbackOnTransition ==
  [][\A t \in Sonde :
       (s_pc[t] = "callback" /\ s_pc'[t] # "callback") => s_ultimo # Stato(s_nuovo[t])
    ]_vars


\* C16: nuova_conversazione called while a Turn is running cancels it: when
\* the call returns, _stop_richiesto is set.
C16_ResetCancels ==
  [][(in_esecuzione /\ nuova_conversazione) => stop_richiesto']_vars

\* the events the GUI thread's own calls put in the queue (configure,
\* submit, emergency stop); every other event comes from a Turn's worker
EventiGui ==
  {MsgStato("STOP DI EMERGENZA"), MsgStato("Elaborazione in corso..."),
   MsgErrore("Interprete non inizializzato!"),
   MsgErrore("L'interprete sta gia' elaborando un messaggio."),
   MsgErrore("Libreria 'open-interpreter' non installata!"),
   MsgErrore("Errore inizializzazione")}

\* C17: from nuova_conversazione until the next Turn is started the history
\* is empty and the queue holds no event of a Turn.
C17_ResetEmpties ==
  dopoReset =>
    /\ cronologia = <<>>
    /\ \A i \in 1..Len(coda_messaggi) : coda_messaggi[i] \in EventiGui

\* C18: riconfigura clears the runtime's messages and writes its settings
\* only when no worker thread is alive.
C18_ReconfigureWhenQuiet ==
  [][\A e \in Esiti : riconfigura(e) => \A w \in Turni : ~Alive(w)]_vars

\* C19: every runtime call of a Turn is made with the configuration the
\* runtime held when the Turn started.
C19_TurnKeepsConfig ==
  [][\A w \in Turni : Riprende(w) => config_rt = config_avvio[w]]_vars


\* the events of s that a Turn's worker put in the queue
DelWorker(s) == SelectSeq(s, LAMBDA m : m \notin EventiGui)

\* the concatenation of the "code" fragments of the stream f
RECURSIVE CodiceDi(_)
CodiceDi(f) ==
  IF f = <<>> THEN <<>>
  ELSE (IF Head(f).key = "code" THEN Head(f).val ELSE <<>>) \o CodiceDi(Tail(f))

\* one ConsoleOutput event for each "output" fragment of the stream f
RECURSIVE OutputDi(_)
OutputDi(f) ==
  IF f = <<>> THEN <<>>
  ELSE (IF Head(f).key = "output" THEN <<MsgOutput(Head(f).val)>> ELSE <<>>)
         \o OutputDi(Tail(f))

\* f is start_of_code, language, one or more code fragments, end_of_code,
\* executing
UnBlocco(f) ==
  /\ Len(f) >= 5
  /\ f[1].key = "start_of_code"
  /\ f[2].key = "language"
  /\ \A i \in 3..(Len(f) - 2) : f[i].key = "code"
  /\ f[Len(f) - 1].key = "end_of_code"
  /\ f[Len(f)].key = "executing"

\* the stream of the scenario, as far as the worker has received it: one
\* block of code that is not blank, its intent, then output fragments that
\* are not empty
Scenario(f) ==
  /\ ~SoloSpazi(CodiceDi(f))
  /\ \E n \in 5..Len(f) :
       /\ UnBlocco(SubSeq(f, 1, n))
       /\ \A i \in (n + 1)..Len(f) : f[i].key = "output" /\ f[i].val # <<>>

\* the three events the scenario expects up to the approval pause
FinoAllaPausa(f) ==
  LET c == CodiceDi(f)  l == f[2].lang
  IN <<MsgCodice(c, l), MsgCodice(c, l), MsgApprovazione(c, l)>>

\* the stream came to its end: the worker did not leave the loop through
\* its except clause, which puts the Error event
FlussoFinito(W) == \A i \in 1..Len(W) : W[i] # MsgErrore("Errore")

C13_DeliveredInOrder == consegnati \o coda_messaggi = prodotti

\* several calls of leggi_messaggi have delivered events of a Turn, one of
\* them two events at once, and the queue holds two more
C13_Witness ==
  /\ Len(consegnati) >= 3
  /\ Len(coda_messaggi) = 2
  /\ coda_messaggi[1] # coda_messaggi[2]


\* a HealthCheckThread that was started and has not ended
SondaViva(t) == s_pc[t] \notin {"idle", "dead"}

\* C21: whatever the sequence of avvia() and ferma() calls, at most one
\* polling loop thread is alive at any time.
C21_OneLoopAlive == Cardinality({t \in Sonde : SondaViva(t)}) <= 1


\* C22: seleziona_provider with a key that was never registered returns
\* False and leaves the active key and the registered configurations as they
\* were; with a registered key it returns True and makes that key active.
C22_SelectUnknownFails ==
  [][\A t \in Chiavi : seleziona_provider(t) =>
        IF t \in DOMAIN providers
        THEN /\ g_ritorno'.ok
             /\ provider_attivo' = t
             /\ providers' = providers
        ELSE /\ ~g_ritorno'.ok
             /\ provider_attivo' = provider_attivo
             /\ providers' = providers]_vars

\* "cloud" was selected, and a later selection of a key that is not
\* registered has failed
C22_Witness ==
  /\ g_ritorno.op = "seleziona_provider"
  /\ ~g_ritorno.ok
  /\ provider_attivo = "cloud"
  /\ DOMAIN providers = Providers

\* C23: whenever the active provider is registered, whatever its API key,
\* the dictionary ottieni_config_interpreter returns has the key "api_key".
C23_AlwaysApiKey ==
  [][ottieni_config_interpreter =>
        (provider_attivo \in DOMAIN providers =>
           "api_key" \in DOMAIN g_ritorno'.config)]_vars

\* C24: whenever the local provider is registered and active, the dictionary
\* ottieni_config_interpreter returns has "api_key" with the placeholder
\* "not-needed", whatever registrations, selections and aggiorna_api_key
\* calls came before.
C24_LocalPlaceholder ==
  [][ottieni_config_interpreter =>
        ((provider_attivo = "locale" /\ "locale" \in DOMAIN providers) =>
           /\ "api_key" \in DOMAIN g_ritorno'.config
           /\ g_ritorno'.config["api_key"] = "not-needed")]_vars

\* the configuration of the local provider was returned with its
\* placeholder after the cloud provider's key was emptied
C24_Witness ==
  /\ g_ritorno.op = "ottieni_config_interpreter"
  /\ provider_attivo = "locale"
  /\ DOMAIN providers = Providers
  /\ providers["cloud"].api_key = ""
  /\ "api_key" \in DOMAIN g_ritorno.config
  /\ g_ritorno.config["api_key"] = "not-needed"

\* C25: verifica_config_valida returns the first check that fails, in the
\* order: no provider under the active key, api_base empty, modello empty,
\* active key "cloud" with an API key that is empty or the placeholder
\* "not-needed"; and it returns valid only if none fails.
C25_FirstFailingCheck ==
  [][verifica_config_valida =>
        LET r == <<g_ritorno'.ok, g_ritorno'.msg>>
            reg == provider_attivo \in DOMAIN providers
            c == providers[provider_attivo]
            senzaChiave == provider_attivo = "cloud" /\ c.api_key \in {"", "not-needed"}
        IN /\ ~reg => r = <<FALSE, "Nessun provider configurato">>
           /\ (reg /\ c.api_base = "") => r = <<FALSE, "URL API base mancante">>
           /\ (reg /\ c.api_base # "" /\ c.modello = "") =>
                 r = <<FALSE, "Modello non specificato">>
           /\ (reg /\ c.api_base # "" /\ c.modello # "" /\ senzaChiave) =>
                 r = <<FALSE, "API key OpenRouter mancante! Inseriscila nelle impostazioni.">>
           /\ (reg /\ c.api_base # "" /\ c.modello # "" /\ ~senzaChiave) =>
                 r = <<TRUE, "Configurazione valida">>]_vars

\* the cloud provider, complete but for a key that is the local
\* placeholder, was found to lack its credential
C25_Witness ==
  /\ g_ritorno.op = "verifica_config_valida"
  /\ ~g_ritorno.ok
  /\ provider_attivo = "cloud" /\ "cloud" \in DOMAIN providers
  /\ providers["cloud"] = [api_base |-> "url", modello |-> "m",
                           api_key |-> "not-needed", offline |-> FALSE,
                           contesto_max |-> 64000]
  /\ g_ritorno.msg = "API key OpenRouter mancante! Inseriscila nelle impostazioni."


\* C26: the hand-off is a single slot.  No image is returned by two calls
\* of preleva_screenshot_pendente; and whenever no call is in progress the
\* slot holds what the next call must return: the image set last if no call
\* has taken it, and None otherwise.
C26_SingleSlot ==
  /\ \A i, j \in 1..Len(v_resi) : i # j => v_resi[i] # v_resi[j]
  /\ (\A w \in Turni : v_pc[w] = "idle") => screenshot_pendente = v_atteso


\* C27: while the flag is false in the process that calls, every function
\* of the facade, posizione_mouse, dimensione_schermo, lista_finestre and
\* attendi included, returns failure and does not reach the operating
\* system.
C27_DisabledIsNoOp ==
  [][\A p \in Processi, f \in Funzioni, e \in EsitiOS, parte \in BOOLEAN :
        (~computer_use_abilitato[p] /\ Chiamata(p, f, e, parte)) =>
           (~cu_ritorno'.ok /\ cu_azioni' = cu_azioni)]_vars

\* C28: the call during which the failsafe fires returns failure and leaves
\* the flag false; and from then on, until abilita_computer_use(True) is
\* called in that process, every call of a function that tests the flag
\* returns failure and does not reach the operating system.
C28_FailsafeDisables ==
  [][\A p \in Processi, f \in ConFailsafe \cup SoloGate, e \in EsitiOS,
        parte \in BOOLEAN :
        /\ (computer_use_abilitato[p] /\ e = "failsafe"
              /\ ChiamataConGate(p, f, e, parte)) =>
             (~cu_ritorno'.ok /\ ~computer_use_abilitato'[p])
        /\ (cu_scattato[p] /\ ChiamataConGate(p, f, e, parte)) =>
             (~cu_ritorno'.ok /\ cu_azioni' = cu_azioni)]_vars


\* s is an initial part of t
Prefisso(s, t) == Len(s) <= Len(t) /\ SubSeq(t, 1, Len(s)) = s

\* C30: between resets the history only grows at its end.  Every step that
\* is not a nuova_conversazione or a riconfigura leaves the entries of the
\* history in place, as an initial part of the new history; and the step
\* that accepts a message (it starts the Turn's thread) appends one entry,
\* the user's message.
C30_HistoryAppendOnly ==
  [][\/ nuova_conversazione
     \/ \E e \in Esiti : riconfigura(e)
     \/ /\ Prefisso(cronologia, cronologia')
        /\ n_thread' # n_thread =>
             cronologia' = Append(cronologia,
                                  [role |-> "user",
                                   message |-> messaggio_arg'[n_thread']])]_vars

\* the history holds the first Turn's message and reply, saved by its
\* thread, and after them the second Turn's message
C30_Witness ==
  /\ n_thread = 2
  /\ Len(cronologia) >= 3
  /\ cronologia[1].role = "user"
  /\ cronologia[2].role = "assistant"
  /\ cronologia[3].role = "user"


\* C29: every event put in the queue and not discarded by a
\* nuova_conversazione is in one place only: among those the calls of
\* leggi_messaggi returned, in the list the call in progress is filling, or
\* still in the queue, in the order of the puts; a call that has started can
\* always take its next step, whatever the Turns' threads are doing; and a
\* call that finds the queue empty at its first test returns the empty list
\* and takes nothing.
C29_DrainExactlyOnce ==
  [][/\ consegnati' \o l_messaggi' \o coda_messaggi' = prodotti'
     /\ l_pc # "idle" => ENABLED Leggi_passo
     /\ (l_pc = "while" /\ l_pc' # "while" /\ coda_messaggi = <<>>
           /\ l_messaggi = <<>>) =>
          (l_pc' = "idle" /\ consegnati' = consegnati
             /\ coda_messaggi' = coda_messaggi)]_vars

\* a call of leggi_messaggi has taken two events and a thread has put a
\* third in the meantime, after earlier calls returned others
C29_Witness ==
  /\ l_pc = "while"
  /\ Len(l_messaggi) = 2
  /\ coda_messaggi # <<>>
  /\ consegnati # <<>>

\* C31: _in_esecuzione is true in every state in which a thread of
\* _elabora_messaggio is still executing a Turn, and it goes from true to
\* false only in the step in which the thread of the current Turn (the last
\* one started) exits.
C31_RunningWhileWorkerAlive ==
  [][/\ (\E w \in Turni : pc'[w] \notin {"idle", "dead"}) => in_esecuzione'
     /\ (in_esecuzione /\ ~in_esecuzione') =>
          /\ n_thread \in Turni
          /\ pc[n_thread] = "finally"
          /\ pc'[n_thread] = "dead"]_vars

\* C32: a decision recorded by approva_esecuzione ends the wait of one gate
\* at most.  The step in which a thread leaves its wait loop because the
\* slot holds a decision is never taken on a decision that has already
\* ended the wait of a gate, of this thread or of another.
C32_OneGatePerDecision ==
  [][\A w \in Turni :
       (pc[w] = "attesa" /\ pc'[w] = "decisione"
          /\ approvazione_risposta # "None") => ~decisione_letta]_vars

\* C33: the step that accepts a message leaves _stop_richiesto False,
\* whatever emergency_stop did before; and a thread of _elabora_messaggio
\* finds the flag set, at the top of its loop or at its gate, only if
\* emergency_stop was called after that thread was started.
C33_FreshTurnNotCancelled ==
  [][/\ n_thread' # n_thread => ~stop_richiesto'
     /\ \A w \in Turni :
          (pc[w] \in {"chunk", "attesa", "decisione"} /\ pc'[w] # pc[w]
             /\ stop_richiesto) => stopSince[w]]_vars

\* the second Turn was accepted after an emergency_stop that found the first
\* one alive, and its thread is receiving chunks with the flag cleared
C33_Witness ==
  /\ n_thread = 2
  /\ stopSince[1]
  /\ ~stopSince[2]
  /\ ~stop_richiesto
  /\ pc[2] = "chunk"

\* C34: switching auto-run on does not release a thread that waits at its
\* gate.  A thread leaves its wait loop only when the slot holds a decision
\* or _stop_richiesto is set; only approva_esecuzione puts a decision in the
\* slot and only emergency_stop sets the flag; imposta_auto_run writes
\* neither.
C34_AutoRunDoesNotRelease ==
  [][/\ \A w \in Turni :
          (pc[w] = "attesa" /\ pc'[w] # "attesa") =>
             (approvazione_risposta # "None" \/ stop_richiesto)
     /\ (approvazione_risposta' # approvazione_risposta
           /\ approvazione_risposta' # "None") =>
          \E a \in BOOLEAN : approva_esecuzione(a)
     /\ (~stop_richiesto /\ stop_richiesto') => emergency_stop
     /\ auto_run' # auto_run =>
          /\ approvazione_risposta' = approvazione_risposta
          /\ stop_richiesto' = stop_richiesto
          /\ pc' = pc]_vars

\* auto-run was switched on while a thread waits at its gate, and the thread
\* is still waiting
C34_Witness ==
  \E w \in Turni :
    /\ pc[w] = "attesa"
    /\ auto_run
    /\ approvazione_risposta = "None"
    /\ ~stop_richiesto

\* C35: a call of inizializza_interpreter that returns False leaves the Core
\* without a runtime (_interpreter is None), so that the next
\* invia_messaggio is refused with "Interprete non inizializzato!".
C35_FailedInitNotConfigured ==
  [][\A e \in Esiti \ {"ok"} :
       inizializza_interpreter(e) => interpreter' = "None"]_vars

\* C36: the image that invia_messaggio stores for a Turn is taken only by a
\* request to the model made by the thread of that Turn: when a thread's
\* request finds an image pending, the image was stored by the submit that
\* started that thread, and not by the submit of an earlier Turn.
C36_ImageStaysInItsTurn ==
  [][\A w \in Turni :
       (pc[w] = "next" /\ pc'[w] # "next" /\ RichiestaAlModello(w)
          /\ screenshot_pendente # Nessuna) => v_turno = w]_vars

\* C37: whenever no HealthCheckThread is between its probe and its callback
\* and a callback has been delivered, the value the last callback carried is
\* the value of _online.
C37_CallbackMatchesOnline ==
  ((\A t \in Sonde : s_pc[t] \notin {"verifica", "confronta", "scrivi", "callback"})
     /\ s_ultimo # "nessuno") => s_ultimo = Stato(s_online)

\* C38: in every state in which verifica_config_valida returns (True, ...),
\* the dictionary ottieni_config_interpreter returns has "api_base", "model"
\* and "api_key", none of them empty.
C38_ValidMeansComplete ==
  ConfigValida(providers, provider_attivo)[1] =>
    LET config == ConfigInterpreter(providers, provider_attivo) IN
      /\ {"api_base", "model", "api_key"} \subseteq DOMAIN config
      /\ config["api_base"] # ""
      /\ config["model"] # ""
      /\ config["api_key"] # ""

\* verifica_config_valida has just returned True for the cloud provider,
\* after aggiorna_api_key or registra_cloud stored a key
C38_Witness ==
  /\ g_ritorno.op = "verifica_config_valida"
  /\ g_ritorno.ok
  /\ provider_attivo = "cloud"
  /\ ConfigValida(providers, provider_attivo)[1]


====
